---------------------------- MODULE Spec2Model ----------------------------
(***************************************************************************)
(* Model of the AC-control backend (src/ac-control-backend/main.py): the   *)
(* MQTT ingestion bridge (on_connect, on_message, store_message), the      *)
(* relational store it writes (Customer, Zone, Device, StatusHistory), the *)
(* delete endpoints that cascade over it, and the per-connection broadcast *)
(* loop of websocket_endpoint.                                             *)
(*                                                                         *)
(* Text that the code parses (MQTT topics) is a sequence of one-character  *)
(* strings, so that split, the MAC regular expression, uuid.UUID and       *)
(* str.upper are computed and not assumed.  A message body is the result   *)
(* of reading its bytes: whether they are UTF-8, what JSON value they      *)
(* hold.  The store is PostgreSQL at READ COMMITTED: a transaction's       *)
(* writes are buffered in the transaction and applied at COMMIT, an UPDATE *)
(* holds the row's lock until the transaction ends.                        *)
(***************************************************************************)
EXTENDS Integers, Sequences, FiniteSets, TLC

VARIABLES
    app_event_loop,  \* main.py:678, the scheduler reference ("none" or "loop")
    bridge,          \* the broker's network thread: "running" or "crashed"
    tasks,           \* the store_message coroutines handed to the scheduler
    clock,           \* the wall clock (datetime.now, the store's now())
    customers,       \* table customers: the set of customer ids
    zones,           \* table zones: zone id -> [customer_id]
    devices,         \* table devices: device id -> row
    history,         \* table status_history: a set of rows
    conn,            \* one live /ws/devices/{customer_id} connection
    published,       \* the mqtt_client.publish calls made, in order
    reply,           \* the response to the last request of the REST API
    req,             \* an update_device request between its checks and its commit
    mqtt_client      \* main.py:675, the client's link to the broker and what it subscribed to

vars == <<app_event_loop, bridge, tasks, clock, customers, zones, devices,
          history, conn, published, reply, req, mqtt_client>>

-----------------------------------------------------------------------------
(* Bounds of the model *)

\* store_message runs handed off in one behaviour
MaxTasks == 2

\* iterations of a connection's broadcast loop
MaxIter == 2

\* the most history rows a customer's devices start with
MaxHistory == 102

\* mqtt_client.publish calls in one behaviour
MaxPublished == 1

\* connection attempts of the client in one behaviour, the first included
MaxConnects == 3

-----------------------------------------------------------------------------
(* Text: strings as sequences of characters *)

Rep(c, n) == [i \in 1..n |-> c]

HexDigits == {"0", "1", "2", "3", "4", "5", "6", "7", "8", "9",
              "a", "b", "c", "d", "e", "f", "A", "B", "C", "D", "E", "F"}

Whitespace == {" ", "\t", "\n"}

UpperOf == [a |-> "A", b |-> "B", c |-> "C", d |-> "D", e |-> "E", f |-> "F",
            g |-> "G", h |-> "H", i |-> "I", j |-> "J", k |-> "K", l |-> "L",
            m |-> "M", n |-> "N", o |-> "O", p |-> "P", q |-> "Q", r |-> "R",
            s |-> "S", t |-> "T", u |-> "U", v |-> "V", w |-> "W", x |-> "X",
            y |-> "Y", z |-> "Z"]

LowerOf == [A |-> "a", B |-> "b", C |-> "c", D |-> "d", E |-> "e", F |-> "f"]

\* Upper leaving the text as it is written
AsWritten(s) == s

\* str.upper()
Upper(s) == [i \in 1..Len(s) |-> IF s[i] \in DOMAIN UpperOf THEN UpperOf[s[i]] ELSE s[i]]

\* the hexadecimal digits of a value, in lower case (how uuid.UUID prints them)
LowerHex(s) == [i \in 1..Len(s) |-> IF s[i] \in DOMAIN LowerOf THEN LowerOf[s[i]] ELSE s[i]]

RECURSIVE SplitAcc(_, _, _, _, _)
SplitAcc(s, sep, i, cur, acc) ==
    IF i > Len(s) THEN Append(acc, cur)
    ELSE IF s[i] = sep THEN SplitAcc(s, sep, i + 1, <<>>, Append(acc, cur))
    ELSE SplitAcc(s, sep, i + 1, Append(cur, s[i]), acc)

\* str.split(sep) for a one-character separator
Split(s, sep) == SplitAcc(s, sep, 1, <<>>, <<>>)

RECURSIVE Join(_, _)
Join(parts, sep) ==
    IF Len(parts) = 0 THEN <<>>
    ELSE IF Len(parts) = 1 THEN parts[1]
    ELSE parts[1] \o <<sep>> \o Join(Tail(parts), sep)

RECURSIVE RemoveSub(_, _)
\* str.replace(pat, '')
RemoveSub(s, pat) ==
    IF Len(s) < Len(pat) THEN s
    ELSE IF SubSeq(s, 1, Len(pat)) = pat
         THEN RemoveSub(SubSeq(s, Len(pat) + 1, Len(s)), pat)
         ELSE <<s[1]>> \o RemoveSub(Tail(s), pat)

RECURSIVE LStrip(_, _)
LStrip(s, cs) == IF Len(s) > 0 /\ s[1] \in cs THEN LStrip(Tail(s), cs) ELSE s

RECURSIVE RStrip(_, _)
RStrip(s, cs) ==
    IF Len(s) > 0 /\ s[Len(s)] \in cs THEN RStrip(SubSeq(s, 1, Len(s) - 1), cs) ELSE s

\* str.strip(chars)
Strip(s, cs) == RStrip(LStrip(s, cs), cs)

RemoveChar(s, c) == SelectSeq(s, LAMBDA ch : ch # c)

-----------------------------------------------------------------------------
(* uuid.UUID(text), as on_message calls it at main.py:744 *)

\* int(text, 16): surrounding white space, a sign, a 0x prefix, and single
\* underscores between digits (and after the prefix) are all accepted
IntBody(s) ==
    LET t == Strip(s, Whitespace)
        u == IF Len(t) > 0 /\ t[1] \in {"+", "-"} THEN Tail(t) ELSE t
        pre == Len(u) >= 2 /\ u[1] = "0" /\ u[2] \in {"x", "X"}
        w == IF pre THEN SubSeq(u, 3, Len(u)) ELSE u
    IN  IF pre /\ Len(w) > 0 /\ w[1] = "_" THEN Tail(w) ELSE w

Int16Ok(s) ==
    LET b == IntBody(s)
    IN  /\ Len(b) > 0
        /\ b[1] \in HexDigits
        /\ b[Len(b)] \in HexDigits
        /\ \A i \in 1..Len(b) : b[i] \in HexDigits \cup {"_"}
        /\ \A i \in 1..(Len(b) - 1) : ~(b[i] = "_" /\ b[i + 1] = "_")

UuidHex(s) ==
    RemoveChar(Strip(RemoveSub(RemoveSub(s, <<"u", "r", "n", ":">>),
                               <<"u", "u", "i", "d", ":">>), {"{", "}"}), "-")

\* uuid.UUID(s) returns (TRUE) or raises ValueError (FALSE)
UuidOk(s) == Len(UuidHex(s)) = 32 /\ Int16Ok(UuidHex(s))

\* the value of uuid.UUID(s): its 32 hexadecimal digits
UuidValue(s) ==
    LET ds == LowerHex(RemoveChar(IntBody(UuidHex(s)), "_"))
    IN  Rep("0", 32 - Len(ds)) \o ds

-----------------------------------------------------------------------------
(* re.match(r'^([0-9A-Fa-f]{2}:){5}[0-9A-Fa-f]{2}$', text), main.py:748.    *)
(* In Python '$' also matches just before a final line feed.               *)

MacMatch(s) ==
    /\ Len(s) = 17 \/ (Len(s) = 18 /\ s[18] = "\n")
    /\ \A i \in 1..17 : IF i % 3 = 0 THEN s[i] = ":" ELSE s[i] \in HexDigits


-----------------------------------------------------------------------------
(* Message bodies and JSON values *)

JStr(s) == [t |-> "str", v |-> s]
JNull == [t |-> "null", v |-> ""]

\* a JSON object: a set of <<key, value>> pairs with distinct keys
Keys(p) == {kv[1] : kv \in p}
Get(p, k) == (CHOOSE kv \in p : kv[1] = k)[2]

\* what msg.payload holds: bytes that are UTF-8 or not, and the JSON text they
\* spell: an object, an array, a scalar, malformed text, or text nested so
\* deep that the parser runs out of stack
Body(utf8, json, value) == [utf8 |-> utf8, json |-> json, value |-> value]

\* json.loads(msg.payload.decode('utf-8')) and the isinstance check,
\* main.py:757-759: the exception raised, or "" and the payload
LoadPayload(body) ==
    IF ~body.utf8 THEN [exc |-> "UnicodeDecodeError", value |-> {}]
    ELSE IF body.json = "malformed" THEN [exc |-> "JSONDecodeError", value |-> {}]
    ELSE IF body.json = "deep" THEN [exc |-> "RecursionError", value |-> {}]
    ELSE IF body.json # "object" THEN [exc |-> "ValueError", value |-> {}]
    ELSE [exc |-> "", value |-> body.value]

\* the exception classes that `except (json.JSONDecodeError, ValueError)`
\* catches at main.py:760: UnicodeDecodeError and JSONDecodeError are ValueErrors
IsValueError(exc) == exc \in {"ValueError", "JSONDecodeError", "UnicodeDecodeError"}

-----------------------------------------------------------------------------
(* on_message, main.py:731-776 *)

KindStatus == <<"s", "t", "a", "t", "u", "s">>
KindTelemetry == <<"t", "e", "l", "e", "m", "e", "t", "r", "y">>

Dropped(why) == [kind |-> "dropped", reason |-> why]

\* OnMessageTry handing a message over whether or not there is a loop to
\* hand it to
OnMessageTryAnyLoop(topic, body, loop) ==
    LET topic_parts == Split(topic, "/")
        loaded == LoadPayload(body)
    IN  IF Len(topic_parts) < 4 THEN Dropped("topic format")
        ELSE IF ~UuidOk(topic_parts[2]) THEN Dropped("customer id")
        ELSE IF ~MacMatch(topic_parts[3]) THEN Dropped("device id")
        ELSE IF topic_parts[4] \notin {KindStatus, KindTelemetry} THEN Dropped("message type")
        ELSE IF loaded.exc # "" /\ IsValueError(loaded.exc) THEN Dropped("payload")
        ELSE IF loaded.exc # "" THEN [kind |-> "raised", reason |-> loaded.exc]
        ELSE [kind |-> "scheduled",
              customer_id |-> topic_parts[2],
              device_id |-> topic_parts[3],
              message_type |-> topic_parts[4],
              payload |-> loaded.value]

\* the body of the try block, main.py:734-773: what it does with one message.
\* kind "raised" is an exception that leaves the try block.
OnMessageTry(topic, body, loop) ==
    LET topic_parts == Split(topic, "/")
    IN  IF Len(topic_parts) < 4 THEN Dropped("topic format")
        ELSE
        LET customer_id == topic_parts[2]
            device_id == topic_parts[3]
            message_type == topic_parts[4]
            loaded == LoadPayload(body)
        IN  IF ~UuidOk(customer_id) THEN Dropped("customer id")
            ELSE IF ~MacMatch(device_id) THEN Dropped("device id")
            ELSE IF message_type \notin {KindStatus, KindTelemetry}
                 THEN Dropped("message type")
            ELSE IF loaded.exc # "" /\ IsValueError(loaded.exc) THEN Dropped("payload")
            ELSE IF loaded.exc # "" THEN [kind |-> "raised", reason |-> loaded.exc]
            ELSE IF loop = "none" THEN Dropped("no event loop")
            ELSE [kind |-> "scheduled",
                  customer_id |-> customer_id,
                  device_id |-> device_id,
                  message_type |-> message_type,
                  payload |-> loaded.value]

\* `except Exception` at main.py:775 logs whatever the try block raised
OnMessageResult(topic, body, loop) ==
    LET r == OnMessageTry(topic, body, loop)
    IN  IF r.kind = "raised" THEN Dropped("unexpected error") ELSE r


-----------------------------------------------------------------------------
(* The ids of the model's world: two customers, a zone and a device each *)

\* the canonical text of the UUID whose 32 digits are all c
UuidText(c) ==
    Rep(c, 8) \o <<"-">> \o Rep(c, 4) \o <<"-">> \o Rep(c, 4) \o <<"-">>
        \o Rep(c, 4) \o <<"-">> \o Rep(c, 12)

\* str(uuid): the canonical text of a UUID value
UuidStr(u) ==
    SubSeq(u, 1, 8) \o <<"-">> \o SubSeq(u, 9, 12) \o <<"-">> \o SubSeq(u, 13, 16)
        \o <<"-">> \o SubSeq(u, 17, 20) \o <<"-">> \o SubSeq(u, 21, 32)

\* the namespace marker of every address, main.py:684
Node == <<"n", "o", "d", "e">>
Topic(segments) == Join(<<Node>> \o segments, "/")

CustA == Rep("1", 32)
CustB == Rep("2", 32)
ZoneA == Rep("a", 32)
ZoneB == Rep("b", 32)

Mac(x, y) == <<"A", "A", ":", "B", "B", ":", "C", "C", ":", "D", "D", ":", x, x, ":", "0", y>>
Dev1 == Mac("E", "1")
Dev2 == Mac("E", "2")
\* a well-formed address that no device row carries
Dev3 == Mac("E", "3")
\* Dev1 as a device may write it, in lower case
Dev1Lower == Mac("e", "1")

-----------------------------------------------------------------------------
(* The store: the rows of main.py:134-209 that the modelled code reads *)

\* Device.last_seen is nullable (main.py:188): 0 stands for NULL, and the
\* clock's first reading is 1
NullTime == 0

DeviceRow(customer_id, zone_id, firmware_version, last_seen, updated_at) ==
    [customer_id |-> customer_id, zone_id |-> zone_id,
     firmware_version |-> firmware_version, last_seen |-> last_seen,
     updated_at |-> updated_at]

HistoryRow(id, device_id, status_type, payload, timestamp) ==
    [id |-> id, device_id |-> device_id, status_type |-> status_type,
     payload |-> payload, timestamp |-> timestamp]

\* the function f without the keys in ks
Without(f, ks) == [k \in (DOMAIN f) \ ks |-> f[k]]

HistoryOf(ds) == {h \in history : h.device_id \in ds}

\* no request answered yet
NoReply == [op |-> "none", status |-> 0, detail |-> ""]

\* no request in flight
NoReq == [pc |-> "none"]

-----------------------------------------------------------------------------
(* store_message, main.py:689-728: one coroutine per handed-off message.    *)
(* Its steps are the statements the store executes for it: the SELECT, the *)
(* UPDATE, the INSERT that the exit of session.begin() flushes, the COMMIT.*)

Task(pc, msg) ==
    [pc |-> pc, customer_id |-> msg.customer_id, device_id |-> msg.device_id,
     message_type |-> msg.message_type, payload |-> msg.payload,
     update_values |-> [last_seen |-> NullTime, set_firmware |-> FALSE,
                        firmware_version |-> JNull],
     lock |-> "none"]

Running == {"lookup", "update", "flush", "commit"}

\* the tasks holding a lock of the given kinds on device row d
Holders(d, kinds) ==
    {j \in 1..Len(tasks) : tasks[j].lock \in kinds /\ Upper(tasks[j].device_id) = d}

Set(i, t) == [tasks EXCEPT ![i] = t]

\* UpdateValues with the firmware taken from any message that carries one
UpdateValuesAnyKind(message_type, payload, now) ==
    [last_seen |-> now,
     set_firmware |-> "firmware_version" \in Keys(payload),
     firmware_version |-> IF "firmware_version" \in Keys(payload)
                          THEN Get(payload, "firmware_version") ELSE JNull]

\* main.py:706-708: the values the UPDATE will set
UpdateValues(message_type, payload, now) ==
    [last_seen |-> now,
     set_firmware |-> message_type = KindTelemetry /\ "firmware_version" \in Keys(payload),
     firmware_version |-> IF "firmware_version" \in Keys(payload)
                          THEN Get(payload, "firmware_version") ELSE JNull]

\* SmLookup registering a device it does not know instead of returning
SmLookupPlaceholder(i) ==
    /\ tasks[i].pc = "lookup"
    /\ LET d == Upper(tasks[i].device_id)
       IN  /\ devices' = IF d \in DOMAIN devices THEN devices
                         ELSE devices @@ (d :> DeviceRow(CustA, ZoneA, "0.0.0", NullTime, 0))
           /\ clock' = clock + 1
           /\ tasks' = Set(i, [tasks[i] EXCEPT
                  !.pc = "update",
                  !.update_values = UpdateValues(tasks[i].message_type,
                                                 tasks[i].payload, clock + 1)])
    /\ UNCHANGED <<published, reply, req, app_event_loop, bridge, customers, zones, history, conn, mqtt_client>>

\* SmLookup finding only a device of the customer the topic names
SmLookupOwner(i) ==
    /\ tasks[i].pc = "lookup"
    /\ LET d == Upper(tasks[i].device_id)
       IN  IF \/ d \notin DOMAIN devices
              \/ devices[d].customer_id # UuidValue(tasks[i].customer_id)
           THEN /\ tasks' = Set(i, [tasks[i] EXCEPT !.pc = "ignored"])
                /\ UNCHANGED clock
           ELSE /\ clock' = clock + 1
                /\ tasks' = Set(i, [tasks[i] EXCEPT
                       !.pc = "update",
                       !.update_values = UpdateValues(tasks[i].message_type,
                                                      tasks[i].payload, clock + 1)])
    /\ UNCHANGED <<published, reply, req, app_event_loop, bridge, customers, zones, devices, history, conn, mqtt_client>>

\* main.py:695-708: the SELECT; an unknown device ends the run with nothing
\* written, otherwise the clock is read and the update values are built
SmLookup(i) ==
    /\ tasks[i].pc = "lookup"
    /\ LET d == Upper(tasks[i].device_id)
       IN  IF d \notin DOMAIN devices
           THEN /\ tasks' = Set(i, [tasks[i] EXCEPT !.pc = "ignored"])
                /\ UNCHANGED clock
           ELSE /\ clock' = clock + 1
                /\ tasks' = Set(i, [tasks[i] EXCEPT
                       !.pc = "update",
                       !.update_values = UpdateValues(tasks[i].message_type,
                                                      tasks[i].payload, clock + 1)])
    /\ UNCHANGED <<published, reply, req, app_event_loop, bridge, customers, zones, devices, history, conn, mqtt_client>>

\* a value the firmware_version column (a string, NOT NULL, main.py:187) refuses
BadFirmware(v) == v.t # "str"

\* SmUpdate outside the transaction: the UPDATE is committed on its own
SmUpdateAutocommit(i) ==
    /\ tasks[i].pc = "update"
    /\ LET d == Upper(tasks[i].device_id)
           u == tasks[i].update_values
       IN  IF d \notin DOMAIN devices
           THEN tasks' = Set(i, [tasks[i] EXCEPT !.pc = "flush"]) /\ UNCHANGED devices
           ELSE IF u.set_firmware /\ u.firmware_version.t # "str"
           THEN tasks' = Set(i, [tasks[i] EXCEPT !.pc = "failed"]) /\ UNCHANGED devices
           ELSE /\ tasks' = Set(i, [tasks[i] EXCEPT !.pc = "flush"])
                /\ devices' = [devices EXCEPT ![d] =
                       [@ EXCEPT !.last_seen = u.last_seen, !.updated_at = u.last_seen]]
    /\ UNCHANGED <<published, reply, req, app_event_loop, bridge, clock, customers, zones, history, conn, mqtt_client>>

\* main.py:710-714: the UPDATE.  It waits for the row's lock; when the row is
\* gone it updates nothing; a value the column refuses raises, and the except
\* branch (main.py:726-728) rolls back.
SmUpdate(i) ==
    /\ tasks[i].pc = "update"
    /\ LET d == Upper(tasks[i].device_id)
           u == tasks[i].update_values
       IN  IF d \notin DOMAIN devices
           THEN tasks' = Set(i, [tasks[i] EXCEPT !.pc = "flush"])
           ELSE IF u.set_firmware /\ BadFirmware(u.firmware_version)
           THEN tasks' = Set(i, [tasks[i] EXCEPT !.pc = "failed", !.lock = "none"])
           ELSE /\ Holders(d, {"update"}) = {}
                /\ tasks' = Set(i, [tasks[i] EXCEPT !.pc = "flush", !.lock = "update"])
    /\ UNCHANGED <<published, reply, req, app_event_loop, bridge, clock, customers, zones, devices, history, conn, mqtt_client>>

\* SmFlush against a status_history table without the foreign key
SmFlushUnchecked(i) ==
    /\ tasks[i].pc = "flush"
    /\ tasks' = Set(i, [tasks[i] EXCEPT !.pc = "commit"])
    /\ UNCHANGED <<published, reply, req, app_event_loop, bridge, clock, customers, zones, devices, history, conn, mqtt_client>>

\* main.py:717-720 and the flush at the exit of session.begin(): the INSERT.
\* status_history.device_id is a foreign key (main.py:203-205): without the
\* device row the INSERT raises and the run rolls back; with it the row is
\* share-locked until the transaction ends.
SmFlush(i) ==
    /\ tasks[i].pc = "flush"
    /\ LET d == Upper(tasks[i].device_id)
       IN  IF d \notin DOMAIN devices
           THEN tasks' = Set(i, [tasks[i] EXCEPT !.pc = "failed", !.lock = "none"])
           ELSE tasks' = Set(i, [tasks[i] EXCEPT
                    !.pc = "commit",
                    !.lock = IF tasks[i].lock = "update" THEN "update" ELSE "share"])
    /\ UNCHANGED <<published, reply, req, app_event_loop, bridge, clock, customers, zones, devices, history, conn, mqtt_client>>

\* Updated keeping the later of the stored and the new last_seen
UpdatedNewest(row, u) ==
    [row EXCEPT !.last_seen = IF @ > u.last_seen THEN @ ELSE u.last_seen,
                !.updated_at = u.last_seen,
                !.firmware_version = IF u.set_firmware THEN u.firmware_version.v ELSE @]

\* the device row after the run's UPDATE; updated_at has onupdate=func.now()
\* (main.py:190-192)
Updated(row, u) ==
    [row EXCEPT !.last_seen = u.last_seen,
                !.updated_at = u.last_seen,
                !.firmware_version = IF u.set_firmware THEN u.firmware_version.v ELSE @]

\* the COMMIT at the exit of session.begin(), main.py:693-722: the buffered
\* UPDATE and INSERT become visible together
SmCommit(i) ==
    /\ tasks[i].pc = "commit"
    /\ LET d == Upper(tasks[i].device_id)
           u == tasks[i].update_values
       IN  /\ devices' = IF tasks[i].lock = "update"
                         THEN [devices EXCEPT ![d] = Updated(devices[d], u)]
                         ELSE devices
           /\ history' = history \cup
                  {HistoryRow(i, d, tasks[i].message_type, tasks[i].payload, u.last_seen)}
    /\ tasks' = Set(i, [tasks[i] EXCEPT !.pc = "done", !.lock = "none"])
    /\ UNCHANGED <<published, reply, req, app_event_loop, bridge, clock, customers, zones, conn, mqtt_client>>

\* main.py:726-728: any statement may raise (a lost connection, a timeout);
\* the except branch rolls the transaction back
SmFail(i) ==
    /\ tasks[i].pc \in Running
    /\ tasks' = Set(i, [tasks[i] EXCEPT !.pc = "failed", !.lock = "none"])
    /\ UNCHANGED <<published, reply, req, app_event_loop, bridge, clock, customers, zones, devices, history, conn, mqtt_client>>

-----------------------------------------------------------------------------
(* The delete endpoints.  The ORM relationships cascade (main.py:151-156,   *)
(* 171-173, 195-197) and so do the foreign keys (ondelete="CASCADE").  A    *)
(* DELETE waits for the locks that running transactions hold on the rows.  *)

Unlocked(ds) == \A d \in ds : Holders(d, {"update", "share"}) = {}

\* the rows left after deleting the device rows ds and what hangs on them
DropDevices(ds) ==
    /\ devices' = Without(devices, ds)
    /\ history' = history \ HistoryOf(ds)

\* delete_device, main.py:1491-1514, called by the authenticated customer
DeleteDevice(customer, device_id) ==
    /\ customer \in customers
    /\ LET d == Upper(device_id)
       IN  IF d \notin DOMAIN devices \/ devices[d].customer_id # customer
           THEN UNCHANGED <<devices, history>>
           ELSE Unlocked({d}) /\ DropDevices({d})
    /\ UNCHANGED <<published, reply, req, app_event_loop, bridge, tasks, clock, customers, zones, conn, mqtt_client>>

\* delete_zone, main.py:1264-1287
DeleteZone(customer, zone_id) ==
    /\ customer \in customers
    /\ IF zone_id \notin DOMAIN zones \/ zones[zone_id].customer_id # customer
       THEN UNCHANGED <<zones, devices, history>>
       ELSE LET ds == {d \in DOMAIN devices : devices[d].zone_id = zone_id}
            IN  /\ Unlocked(ds)
                /\ zones' = Without(zones, {zone_id})
                /\ DropDevices(ds)
    /\ UNCHANGED <<published, reply, req, app_event_loop, bridge, tasks, clock, customers, conn, mqtt_client>>

\* delete_profile, main.py:1030-1044
DeleteProfile(customer) ==
    /\ customer \in customers
    /\ LET zs == {z \in DOMAIN zones : zones[z].customer_id = customer}
           ds == {d \in DOMAIN devices :
                     devices[d].customer_id = customer \/ devices[d].zone_id \in zs}
       IN  /\ Unlocked(ds)
           /\ customers' = customers \ {customer}
           /\ zones' = Without(zones, zs)
           /\ DropDevices(ds)
    /\ UNCHANGED <<published, reply, req, app_event_loop, bridge, tasks, clock, conn, mqtt_client>>

-----------------------------------------------------------------------------
(* The endpoints that create and change device rows *)

\* the principal the credential gate returns for a valid device secret
\* (None, main.py:618)
DevicePrincipal == <<"d", "e", "v", "i", "c", "e">>

\* what the caller is told: the status code and the detail of the HTTPException
Reply(op, status, detail) == [op |-> op, status |-> status, detail |-> detail]

\* create_device, main.py:1299-1359, for a request body that DeviceCreate
\* (main.py:393-411) has validated.  The INSERT is subject to the primary key
\* and to the foreign keys; the checks before it read the same rows.
InsertDevice(principal, customer_id, device_id, zone_id, firmware_version) ==
    LET d == Upper(device_id)
    IN  IF principal # DevicePrincipal /\ principal # customer_id
        THEN reply' = Reply("create_device", 403, "Access denied.") /\ UNCHANGED devices
        ELSE IF customer_id \notin customers
        THEN reply' = Reply("create_device", 404, "Customer not found.") /\ UNCHANGED devices
        ELSE IF zone_id \notin DOMAIN zones \/ zones[zone_id].customer_id # customer_id
        THEN reply' = Reply("create_device", 400, "Zone not found or does not belong to the specified customer.") /\ UNCHANGED devices
        ELSE IF d \in DOMAIN devices
        THEN reply' = Reply("create_device", 409, "Device with this ID already exists.") /\ UNCHANGED devices
        ELSE /\ reply' = Reply("create_device", 200, "")
             /\ devices' = devices @@
                    (d :> DeviceRow(customer_id, zone_id, firmware_version, NullTime, clock))

\* create_device called with the principal the credential gate has returned
CreateDevice(principal, customer_id, device_id, zone_id, firmware_version) ==
    /\ InsertDevice(principal, customer_id, device_id, zone_id, firmware_version)
    /\ UNCHANGED <<published, req, app_event_loop, bridge, tasks, clock, customers, zones, history, conn, mqtt_client>>

-----------------------------------------------------------------------------
(* send_device_command, main.py:1545-1590, and trigger_ota_update,          *)
(* main.py:1593-1620                                                       *)

Digits == {"0", "1", "2", "3", "4", "5", "6", "7", "8", "9"}

DigitOf == [c \in Digits |-> CHOOSE n \in 0..9 : <<"0", "1", "2", "3", "4", "5", "6", "7", "8", "9">>[n + 1] = c]

\* int(text): the text without the white space around it and without its sign
IntDigits(s) ==
    LET t == Strip(s, Whitespace)
    IN  IF Len(t) > 0 /\ t[1] \in {"+", "-"} THEN Tail(t) ELSE t

\* int(text) returns (TRUE) or raises ValueError (FALSE): decimal digits with
\* single underscores between them, after an optional sign, inside white space
IntOk(s) ==
    LET b == IntDigits(s)
    IN  /\ Len(b) > 0
        /\ b[1] \in Digits
        /\ b[Len(b)] \in Digits
        /\ \A i \in 1..Len(b) : b[i] \in Digits \cup {"_"}
        /\ \A i \in 1..(Len(b) - 1) : ~(b[i] = "_" /\ b[i + 1] = "_")

RECURSIVE Magnitude(_)
Magnitude(ds) ==
    IF ds = <<>> THEN 0 ELSE 10 * Magnitude(SubSeq(ds, 1, Len(ds) - 1)) + DigitOf[ds[Len(ds)]]

\* the value of int(text)
IntValue(s) ==
    LET t == Strip(s, Whitespace)
        m == Magnitude(RemoveChar(IntDigits(s), "_"))
    IN  IF Len(t) > 0 /\ t[1] = "-" THEN 0 - m ELSE m

CmdPower == <<"p", "o", "w", "e", "r">>
CmdMode == <<"m", "o", "d", "e">>
CmdTemperature == <<"t", "e", "m", "p", "e", "r", "a", "t", "u", "r", "e">>
CmdFanspeed == <<"f", "a", "n", "s", "p", "e", "e", "d">>

On == <<"o", "n">>
Off == <<"o", "f", "f">>
Auto == <<"a", "u", "t", "o">>
Cool == <<"c", "o", "o", "l">>
Heat == <<"h", "e", "a", "t">>
Dry == <<"d", "r", "y">>
Fan == <<"f", "a", "n">>
Low == <<"l", "o", "w">>
Medium == <<"m", "e", "d", "i", "u", "m">>
High == <<"h", "i", "g", "h">>

\* the lowest and the highest temperature, main.py:1568
TempMin == 16
TempMax == 30

\* CommandRejected with the two ends of the range refused
CommandRejectedOpenRange(command, value) ==
    \/ command = CmdPower /\ value \notin {On, Off}
    \/ command = CmdMode /\ value \notin {Auto, Cool, Heat, Dry, Fan}
    \/ command = CmdTemperature /\
          (~IntOk(value) \/ IntValue(value) <= TempMin \/ IntValue(value) >= TempMax)
    \/ command = CmdFanspeed /\ value \notin {Auto, Low, Medium, High}

\* main.py:1559-1575: the value is refused for its kind (400)
CommandRejected(command, value) ==
    \/ command = CmdPower /\ value \notin {On, Off}
    \/ command = CmdMode /\ value \notin {Auto, Cool, Heat, Dry, Fan}
    \/ command = CmdTemperature /\
          (~IntOk(value) \/ IntValue(value) < TempMin \/ IntValue(value) > TempMax)
    \/ command = CmdFanspeed /\ value \notin {Auto, Low, Medium, High}

\* the detail of the 400 that rejects a value of the kind
Detail(command) ==
    CASE command = CmdPower -> "Invalid power command value."
      [] command = CmdMode -> "Invalid mode command value."
      [] command = CmdTemperature -> "Temperature must be an integer between 16 and 30."
      [] command = CmdFanspeed -> "Invalid fanspeed command value."

\* NotOwned asking only whether the device exists
NotFound(customer, d) == d \notin DOMAIN devices

\* main.py:1555 and 1603: `not device or device.customer_id !=
\* current_customer.customer_id`
NotOwned(customer, d) == d \notin DOMAIN devices \/ devices[d].customer_id # customer

\* mqtt_client.publish(topic, payload, qos=1)
Publish(topic, payload) == [topic |-> topic, payload |-> payload, qos |-> 1]

\* CommandBody with the value tidied before it is sent
CommandBodyStripped(value) == Strip(value, Whitespace)

\* main.py:1579: the body of a command is command_data.value
CommandBody(value) == value

\* main.py:1578: the topic of a command
CommandTopic(customer, device_id, command) ==
    Join(<<Node, UuidStr(customer), device_id, <<"c", "o", "m", "m", "a", "n", "d">>, command>>, "/")

\* main.py:1606-1607: the topic and the payload of an OTA directive
OtaTopic(customer, device_id) == Join(<<Node, UuidStr(customer), device_id, <<"o", "t", "a">>>>, "/")
OtaPayload(firmware_url, firmware_version) == firmware_url \o <<",">> \o firmware_version

-----------------------------------------------------------------------------
(* websocket_endpoint, main.py:1701-1788: one connection.  Its session `db` *)
(* comes from get_db (main.py:497-506) and lives as long as the connection:*)
(* the loop never commits, rolls back or expires it, so an object the      *)
(* session has loaded, and that the local list `devices` still holds when  *)
(* the next query runs, is handed back as it was first loaded.             *)

\* .limit(100), main.py:1734
HistoryLimit == 100

\* a bearer token as verify_jwt_token (main.py:543-559) sees it: "ok",
\* "expired", "bad signature" or "malformed", and the customer_id it carries
Token(state, customer_id) == [state |-> state, customer_id |-> customer_id]

\* the customer ids a token may carry: the two customers', one that no
\* customer has, text that is no UUID, none
TokenIds == {UuidText("1"), UuidText("2"), UuidText("3"), <<"a", "c", "m", "e">>, <<>>}

\* uuid.UUID(customer_id_str), main.py:659 and 585, for each subject: the
\* value, or "" where it raises ValueError
SubjectUuid == [text \in TokenIds |-> IF UuidOk(text) THEN UuidValue(text) ELSE <<>>]

\* get_current_customer_ws, main.py:634-672: the customer id, or "" when the
\* token is refused
TokenCustomer(token) ==
    IF token.state # "ok" \/ token.customer_id = <<>> THEN <<>>
    ELSE IF SubjectUuid[token.customer_id] = <<>> THEN <<>>
    ELSE IF SubjectUuid[token.customer_id] \notin customers THEN <<>>
    ELSE SubjectUuid[token.customer_id]

NoConn == [pc |-> "none", customer_id |-> <<>>, devices |-> <<>>, history |-> <<>>,
           sent |-> <<>>, iter |-> 0, raised |-> FALSE, gone |-> 0]

\* WsConnect without the comparison with the path
WsConnectAnyPath(path_customer, token) ==
    /\ conn.pc = "none"
    /\ LET c == TokenCustomer(token)
       IN  IF c = <<>>
           THEN conn' = [conn EXCEPT !.pc = "refused"]
           ELSE conn' = [conn EXCEPT !.pc = "query_devices",
                                     !.customer_id = path_customer, !.iter = 1]
    /\ UNCHANGED <<published, reply, req, app_event_loop, bridge, tasks, clock, customers, zones, devices, history, mqtt_client>>

\* main.py:1707-1715: the upgrade is accepted for a valid token whose customer
\* is the one in the path
WsConnect(path_customer, token) ==
    /\ conn.pc = "none"
    /\ LET c == TokenCustomer(token)
       IN  IF c = <<>> \/ UuidStr(c) # path_customer
           THEN conn' = [conn EXCEPT !.pc = "refused"]
           ELSE conn' = [conn EXCEPT !.pc = "query_devices",
                                     !.customer_id = path_customer, !.iter = 1]
    /\ UNCHANGED <<published, reply, req, app_event_loop, bridge, tasks, clock, customers, zones, devices, history, mqtt_client>>

DeviceObject(d) ==
    [device_id |-> d, customer_id |-> devices[d].customer_id,
     zone_id |-> devices[d].zone_id,
     firmware_version |-> devices[d].firmware_version,
     last_seen |-> devices[d].last_seen, updated_at |-> devices[d].updated_at]

\* the session's identity map: the object for row d is the one the list
\* `held` already holds, if any, and is built from the row otherwise
Load(held, d) ==
    IF \E k \in 1..Len(held) : held[k].device_id = d
    THEN held[CHOOSE k \in 1..Len(held) : held[k].device_id = d]
    ELSE DeviceObject(d)

\* ORDER BY key DESC over rows given as records [key, tiekey, row]: rows of
\* equal key come in either order of their tiekeys.  The n first rows, as a
\* sequence.
Newest(keyed, tie, n) ==
    LET before(q, r) == \/ q.key > r.key
                        \/ q.key = r.key /\ IF tie = "up" THEN q.tiekey < r.tiekey
                                            ELSE q.tiekey > r.tiekey
        ranked == {<<Cardinality({q \in keyed : before(q, r)}) + 1, r.row>> : r \in keyed}
        len == IF Cardinality(keyed) < n THEN Cardinality(keyed) ELSE n
    IN  [k \in 1..len |-> (CHOOSE p \in ranked : p[1] = k)[2]]

DeviceRank(d) == CHOOSE k \in 1..3 : <<Dev1, Dev2, Dev3>>[k] = d

\* the rows of a query with what ORDER BY sorts them on: updated_at
\* (main.py:1722) and timestamp (main.py:1733)
ByUpdatedAt(ds) == {[key |-> devices[d].updated_at, tiekey |-> DeviceRank(d), row |-> d] : d \in ds}
ByTimestamp(hs) == {[key |-> h.timestamp, tiekey |-> h.id, row |-> h] : h \in hs}

\* the customer ids a client may put in the path
Paths == {UuidText("1"), UuidText("2"), Upper(UuidText("a")), Rep("1", 32)}

\* uuid.UUID(customer_id), main.py:1721, for each of them
CustomerOf == [path \in Paths |-> UuidValue(path)]

\* main.py:1719-1725: the device query of one iteration
WsQueryDevices(tie) ==
    /\ conn.pc = "query_devices"
    /\ LET owned == {d \in DOMAIN devices :
                        devices[d].customer_id = CustomerOf[conn.customer_id]}
           rows == Newest(ByUpdatedAt(owned), tie, Cardinality(owned))
       IN  conn' = [conn EXCEPT
               !.pc = "send_devices",
               !.devices = [k \in 1..Len(rows) |-> Load(conn.devices, rows[k])]]
    /\ UNCHANGED <<published, reply, req, app_event_loop, bridge, tasks, clock, customers, zones, devices, history, mqtt_client>>

Pushed(type, n) == [type |-> type, iter |-> conn.iter, n |-> n]

\* WsSendDevices going on to the history query whatever the snapshot holds
WsSendDevicesThenHistory ==
    /\ conn.pc = "send_devices"
    /\ conn' = [conn EXCEPT
           !.pc = "query_history",
           !.sent = Append(@, Pushed("device_update", Len(conn.devices)))]
    /\ UNCHANGED <<published, reply, req, app_event_loop, bridge, tasks, clock, customers, zones, devices, history, mqtt_client>>

\* WsSendDevices with a push to a client that has gone dropped in silence
WsSendDevicesUnnoticed ==
    /\ conn.pc = "send_devices"
    /\ conn' = [conn EXCEPT
           !.pc = IF conn.devices # <<>> THEN "query_history" ELSE "sleep",
           !.sent = IF conn.gone > 0 THEN @
                    ELSE Append(@, Pushed("device_update", Len(conn.devices)))]
    /\ UNCHANGED <<published, reply, req, app_event_loop, bridge, tasks, clock, customers, zones, devices, history, mqtt_client>>

\* main.py:1726-1728: the device snapshot is pushed; the push to a client that
\* has gone raises, and the except branches (main.py:1742-1777) leave the loop
WsSendDevices ==
    /\ conn.pc = "send_devices"
    /\ conn' = IF conn.gone > 0
               THEN [conn EXCEPT !.pc = "closed", !.raised = TRUE]
               ELSE [conn EXCEPT
                        !.pc = IF conn.devices # <<>> THEN "query_history" ELSE "sleep",
                        !.sent = Append(@, Pushed("device_update", Len(conn.devices)))]
    /\ UNCHANGED <<published, reply, req, app_event_loop, bridge, tasks, clock, customers, zones, devices, history, mqtt_client>>

\* WsQueryHistory without the LIMIT
WsQueryHistoryUnlimited(tie) ==
    /\ conn.pc = "query_history"
    /\ LET device_ids == {conn.devices[k].device_id : k \in 1..Len(conn.devices)}
       IN  conn' = [conn EXCEPT
               !.pc = "send_history",
               !.history = Newest(ByTimestamp(HistoryOf(device_ids)), tie,
                                  Cardinality(HistoryOf(device_ids)))]
    /\ UNCHANGED <<published, reply, req, app_event_loop, bridge, tasks, clock, customers, zones, devices, history, mqtt_client>>

\* main.py:1729-1737: the history query
WsQueryHistory(tie) ==
    /\ conn.pc = "query_history"
    /\ LET device_ids == {conn.devices[k].device_id : k \in 1..Len(conn.devices)}
       IN  conn' = [conn EXCEPT
               !.pc = "send_history",
               !.history = Newest(ByTimestamp(HistoryOf(device_ids)), tie, HistoryLimit)]
    /\ UNCHANGED <<published, reply, req, app_event_loop, bridge, tasks, clock, customers, zones, devices, history, mqtt_client>>

\* main.py:1738: the history snapshot is pushed, or the push raises as in
\* WsSendDevices
WsSendHistory ==
    /\ conn.pc = "send_history"
    /\ conn' = IF conn.gone > 0
               THEN [conn EXCEPT !.pc = "closed", !.raised = TRUE]
               ELSE [conn EXCEPT
                        !.pc = "sleep",
                        !.sent = Append(@, Pushed("status_history", Len(conn.history)))]
    /\ UNCHANGED <<published, reply, req, app_event_loop, bridge, tasks, clock, customers, zones, devices, history, mqtt_client>>

\* main.py:1740 and the next turn of `while True`
WsSleep ==
    /\ conn.pc = "sleep"
    /\ conn.iter < MaxIter
    /\ conn' = [conn EXCEPT !.pc = "query_devices", !.iter = @ + 1]
    /\ UNCHANGED <<published, reply, req, app_event_loop, bridge, tasks, clock, customers, zones, devices, history, mqtt_client>>

\* WsFail with the except branches going on to the sleep instead of leaving
WsFailCarriesOn ==
    /\ conn.pc \in {"query_devices", "send_devices", "query_history", "send_history"}
    /\ conn' = [conn EXCEPT !.pc = "sleep", !.raised = TRUE]
    /\ UNCHANGED <<published, reply, req, app_event_loop, bridge, tasks, clock, customers, zones, devices, history, mqtt_client>>

\* the client closes the connection, or the transport finds it closed, while
\* the loop is running; conn.gone keeps the iteration it happened in (0 while
\* the client is there).  The loop has no receive call (main.py:1717-1740), so
\* nothing in it runs at this moment; the last sleep the model takes is not
\* followed by an iteration, so the client leaves before it
WsClientGone ==
    /\ conn.pc \in {"query_devices", "send_devices", "query_history", "send_history", "sleep"}
    /\ conn.pc = "sleep" => conn.iter < MaxIter
    /\ conn.gone = 0
    /\ conn' = [conn EXCEPT !.gone = conn.iter]
    /\ UNCHANGED <<published, reply, req, app_event_loop, bridge, tasks, clock, customers, zones, devices, history, mqtt_client>>

\* main.py:1742-1777: a query or a push raises (the client is gone, the store
\* fails); both except branches leave the loop
WsFail ==
    /\ conn.pc \in {"query_devices", "send_devices", "query_history", "send_history"}
    /\ conn' = [conn EXCEPT !.pc = "closed", !.raised = TRUE]
    /\ UNCHANGED <<published, reply, req, app_event_loop, bridge, tasks, clock, customers, zones, devices, history, mqtt_client>>

-----------------------------------------------------------------------------
(* The credential gate of create_device, main.py:601-631.  HTTPBearer       *)
(* (main.py:562, auto_error=False) hands over credentials only for an      *)
(* Authorization header of the Bearer scheme with a token that is not      *)
(* empty, and None otherwise.                                              *)

NoCredentials == [state |-> "none", customer_id |-> <<>>]
\* no X-Device-Secret header
NoHeader == <<"N", "o", "n", "e">>

\* the process-wide device secret (main.py:55), never empty (main.py:64-72)
DEVICE_SECRET_KEY == <<"s", "3", "c", "r", "3", "t">>

\* the detail of the 401 that refuses a token, main.py:548-559 and 574-598
Refusal(token) ==
    CASE token.state = "none" -> "Not authenticated"
      [] token.state = "expired" -> "Token has expired"
      [] token.state = "bad signature" -> "Invalid token signature"
      [] token.state = "malformed" -> "Invalid token format"
      [] token.state = "ok" /\ token.customer_id = <<>> -> "Invalid token payload"
      [] token.state = "ok" /\ token.customer_id # <<>> /\ SubjectUuid[token.customer_id] = <<>>
            -> "Invalid customer_id format in token"
      [] OTHER -> "Customer not found"

\* get_current_customer, main.py:565-598: the customer, or "" where it
\* raises 401
GetCurrentCustomer(credentials) ==
    IF credentials = NoCredentials THEN <<>> ELSE TokenCustomer(credentials)

\* the gate asking for the device secret before it looks at the token
GateSecretFirst(credentials, x_device_secret) ==
    IF x_device_secret = DEVICE_SECRET_KEY THEN DevicePrincipal
    ELSE GetCurrentCustomer(credentials)

\* get_current_customer_or_device_auth, main.py:601-631: the customer, the
\* device principal, or "" where it raises 401
GetCurrentCustomerOrDeviceAuth(credentials, x_device_secret) ==
    IF credentials # NoCredentials
    THEN GetCurrentCustomer(credentials)
    ELSE IF x_device_secret # NoHeader /\ x_device_secret # <<>>
    THEN IF x_device_secret = DEVICE_SECRET_KEY THEN DevicePrincipal ELSE <<>>
    ELSE <<>>

\* the detail of the gate's 401
GateDetail(credentials, x_device_secret) ==
    IF credentials # NoCredentials THEN Refusal(credentials)
    ELSE IF x_device_secret # NoHeader /\ x_device_secret # <<>> THEN "Invalid device secret"
    ELSE "Authentication required"

\* a request to create_device goes through the gate (main.py:1302-1303): it
\* waits for its handler with the principal it was given, or is answered 401
BeginCreateDevice(credentials, x_device_secret, customer_id, device_id, zone_id, firmware_version) ==
    /\ req.pc \in {"none", "refused"}
    /\ LET principal == GetCurrentCustomerOrDeviceAuth(credentials, x_device_secret)
       IN  /\ req' = [pc |-> IF principal = <<>> THEN "refused" ELSE "create_device",
                      credentials |-> credentials, x_device_secret |-> x_device_secret,
                      principal |-> principal,
                      customer_id |-> customer_id, device_id |-> device_id,
                      zone_id |-> zone_id, firmware_version |-> firmware_version]
           /\ reply' = IF principal = <<>>
                       THEN Reply("create_device", 401, GateDetail(credentials, x_device_secret))
                       ELSE reply
    /\ UNCHANGED <<published, app_event_loop, bridge, tasks, clock, customers, zones, devices, history, conn, mqtt_client>>

\* the handler of a request that has passed the gate, main.py:1299-1359
RunCreateDevice ==
    /\ req.pc = "create_device"
    /\ InsertDevice(req.principal, req.customer_id, req.device_id, req.zone_id,
                    req.firmware_version)
    /\ req' = NoReq
    /\ UNCHANGED <<published, app_event_loop, bridge, tasks, clock, customers, zones, history, conn, mqtt_client>>

-----------------------------------------------------------------------------
(* update_device, main.py:1441-1484.  The handler reads the device row and  *)
(* the zone row, changes the loaded object and commits; other requests run *)
(* between its reads and its commit.  The two reads are taken as one step: *)
(* rows do not pass from one customer to another, so what they return      *)
(* together is what they return apart.                                     *)

\* "zone_id": null in a request body
Null == <<"n", "u", "l", "l">>

\* main.py:1450-1470: the checks before the object is changed.  update_dict
\* is update_data.model_dump(exclude_unset=True): the fields the body sets,
\* among those of DeviceUpdate (main.py:414-423)
BeginUpdateDevice(token, device_id, update_dict) ==
    /\ req.pc \in {"none", "refused"}
    /\ LET customer == TokenCustomer(token)
           d == Upper(device_id)
           Refuse(status, detail) ==
               reply' = Reply("update_device", status, detail) /\ UNCHANGED req
       IN  IF customer = <<>>
           THEN Refuse(401, Refusal(token))
           ELSE IF NotOwned(customer, d)
           THEN Refuse(404, "Device not found or access denied.")
           ELSE IF DOMAIN update_dict = {}
           THEN Refuse(400, "No fields provided for update.")
           ELSE IF /\ "zone_id" \in DOMAIN update_dict
                   /\ \/ update_dict.zone_id \notin DOMAIN zones
                      \/ zones[update_dict.zone_id].customer_id # customer
           THEN Refuse(400, "Zone not found or does not belong to customer.")
           ELSE /\ req' = [pc |-> "update_device", device_id |-> d,
                           update_dict |-> update_dict]
                /\ UNCHANGED reply
    /\ UNCHANGED <<published, app_event_loop, bridge, tasks, clock, customers, zones, devices, history, conn, mqtt_client>>

\* Moved writing the owner of the zone along with the zone
MovedWithOwner(row, update_dict, now) ==
    [customer_id |-> IF "zone_id" \in DOMAIN update_dict
                     THEN zones[update_dict.zone_id].customer_id ELSE row.customer_id,
     zone_id |-> IF "zone_id" \in DOMAIN update_dict THEN update_dict.zone_id ELSE row.zone_id,
     firmware_version |-> IF "firmware_version" \in DOMAIN update_dict
                          THEN update_dict.firmware_version ELSE row.firmware_version,
     last_seen |-> row.last_seen,
     updated_at |-> now]

\* main.py:1472-1474: the row after the UPDATE that the commit flushes; only
\* the fields of the body are written, and updated_at (main.py:190-192)
Moved(row, update_dict, now) ==
    [customer_id |-> row.customer_id,
     zone_id |-> IF "zone_id" \in DOMAIN update_dict THEN update_dict.zone_id ELSE row.zone_id,
     firmware_version |-> IF "firmware_version" \in DOMAIN update_dict
                          THEN update_dict.firmware_version ELSE row.firmware_version,
     last_seen |-> row.last_seen,
     updated_at |-> now]

\* main.py:1474-1484: db.commit() flushes UPDATE devices ... WHERE device_id
\* = <the loaded key>.  It waits for a row lock another transaction holds; it
\* fails (500, rolled back) when the row is gone or the zone is gone.
CommitUpdateDevice ==
    /\ req.pc = "update_device"
    /\ Holders(req.device_id, {"update"}) = {}
    /\ IF \/ req.device_id \notin DOMAIN devices
          \/ "zone_id" \in DOMAIN req.update_dict /\ req.update_dict.zone_id \notin DOMAIN zones
       THEN /\ reply' = Reply("update_device", 500, "Internal server error")
            /\ UNCHANGED devices
       ELSE /\ reply' = Reply("update_device", 200, "")
            /\ devices' = [devices EXCEPT
                              ![req.device_id] = Moved(@, req.update_dict, clock)]
    /\ req' = NoReq
    /\ UNCHANGED <<published, app_event_loop, bridge, tasks, clock, customers, zones, history, conn, mqtt_client>>

-----------------------------------------------------------------------------
(* The two publishing endpoints.  get_current_customer (main.py:565-598)   *)
(* turns the bearer token into the acting customer as                      *)
(* get_current_customer_ws does, and answers 401 where that one refuses.   *)

\* send_device_command, main.py:1545-1590, for a body that DeviceCommand
\* (main.py:465-470) has validated: command is one of the four kinds
SendDeviceCommand(token, device_id, command, value) ==
    /\ LET customer == TokenCustomer(token)
           d == Upper(device_id)
       IN  IF customer = <<>>
           THEN reply' = Reply("send_device_command", 401, Refusal(token)) /\ UNCHANGED published
           ELSE IF NotOwned(customer, d)
           THEN reply' = Reply("send_device_command", 404, "Device not found or access denied.") /\ UNCHANGED published
           ELSE IF CommandRejected(command, value)
           THEN reply' = Reply("send_device_command", 400, Detail(command)) /\ UNCHANGED published
           ELSE /\ Len(published) < MaxPublished
                /\ published' = Append(published,
                       Publish(CommandTopic(customer, device_id, command), CommandBody(value)))
                /\ reply' = Reply("send_device_command", 200, "")
    /\ UNCHANGED <<req, app_event_loop, bridge, tasks, clock, customers, zones, devices, history, conn, mqtt_client>>

\* trigger_ota_update, main.py:1593-1620, for a body that OTAUpdate
\* (main.py:473-481) has validated
TriggerOtaUpdate(token, device_id, firmware_url, firmware_version) ==
    /\ LET customer == TokenCustomer(token)
           d == Upper(device_id)
       IN  IF customer = <<>>
           THEN reply' = Reply("trigger_ota_update", 401, Refusal(token)) /\ UNCHANGED published
           ELSE IF NotOwned(customer, d)
           THEN reply' = Reply("trigger_ota_update", 404, "Device not found or access denied.") /\ UNCHANGED published
           ELSE /\ Len(published) < MaxPublished
                /\ published' = Append(published,
                       Publish(OtaTopic(customer, device_id),
                               OtaPayload(firmware_url, firmware_version)))
                /\ reply' = Reply("trigger_ota_update", 200, "")
    /\ UNCHANGED <<req, app_event_loop, bridge, tasks, clock, customers, zones, devices, history, conn, mqtt_client>>

-----------------------------------------------------------------------------
(* The values the model's environment draws from *)


Empty == Body(TRUE, "object", {})
Firmware(v) == Body(TRUE, "object", {<<"firmware_version", v>>})

\* a well-formed status message for a known device
PlainMessage == <<Topic(<<UuidText("1"), Dev1, KindStatus>>), Empty>>

\* well-formed messages, one for each way store_message treats an event
IngestMessages ==
    {<<Topic(<<UuidText("1"), Dev1, KindStatus>>), Firmware(JStr("2.0.1"))>>,
     <<Topic(<<UuidText("1"), Dev1, KindTelemetry>>), Empty>>,
     <<Topic(<<UuidText("1"), Dev1, KindTelemetry>>), Firmware(JStr("2.0.1"))>>,
     <<Topic(<<UuidText("1"), Dev1, KindTelemetry>>), Firmware(JNull)>>,
     <<Topic(<<UuidText("1"), Dev3, KindTelemetry>>), Firmware(JStr("2.0.1"))>>}

\* telemetry of one device of each customer
StoreMessages ==
    {<<Topic(<<UuidText("1"), Dev1, KindTelemetry>>), Firmware(JStr("2.0.1"))>>,
     <<Topic(<<UuidText("2"), Dev2, KindStatus>>), Empty>>}

\* messages of a shape the validator is there to refuse
OddMessages ==
    {<<Topic(<<UuidText("1"), Dev1>>), Empty>>,
     <<Topic(<<UuidText("1"), Dev1, KindTelemetry, <<"x">>>>), Empty>>,
     <<Topic(<<UuidText("1"), Dev1, <<"c", "o", "m", "m", "a", "n", "d">>,
               <<"p", "o", "w", "e", "r">>>>), Empty>>,
     <<Topic(<<UuidText("1"), Dev1, <<"o", "t", "a">>>>), Empty>>,
     <<Topic(<<<<"a", "c", "m", "e">>, Dev1, KindStatus>>), Empty>>,
     <<Topic(<<<<"0", "x">> \o Rep("1", 30), Dev1, KindStatus>>), Empty>>,
     <<Topic(<<UuidText("1"), SubSeq(Dev1, 1, 14), KindStatus>>), Empty>>,
     <<Topic(<<UuidText("1"), Mac("G", "1"), KindStatus>>), Empty>>,
     <<Topic(<<UuidText("1"), Dev1 \o <<"\n">>, KindStatus>>), Empty>>,
     <<Topic(<<UuidText("1"), Dev1, Upper(KindStatus)>>), Empty>>,
     <<Topic(<<UuidText("1"), Dev1, KindStatus>>), Body(TRUE, "array", {})>>,
     <<Topic(<<UuidText("1"), Dev1, KindStatus>>), Body(TRUE, "scalar", {})>>,
     <<Topic(<<UuidText("1"), Dev1, KindStatus>>), Body(TRUE, "malformed", {})>>,
     <<Topic(<<UuidText("1"), Dev1, KindStatus>>), Body(TRUE, "deep", {})>>,
     <<Topic(<<UuidText("1"), Dev1, KindStatus>>), Body(FALSE, "object", {})>>}

\* Dev1 as a device may write it, in letters of both cases
Dev1Mixed == [i \in 1..Len(Dev1) |-> IF i % 2 = 1 THEN Dev1Lower[i] ELSE Dev1[i]]

\* the report of one device with its address in a given spelling
Report(device_id) == <<Topic(<<UuidText("1"), device_id, KindTelemetry>>), Firmware(JStr("2.0.1"))>>

\* one report in each spelling of the device's address
CaseMessages == {Report(d) : d \in {Dev1, Dev1Lower, Dev1Mixed}}

\* the characters of the firmware versions of the model's world
VersionText ==
    ("1.0.0" :> <<"1", ".", "0", ".", "0">>) @@ ("2.0.0" :> <<"2", ".", "0", ".", "0">>)
        @@ ("2.0.1" :> <<"2", ".", "0", ".", "1">>) @@ ("beta" :> <<"b", "e", "t", "a">>)

\* main.py:403 and 420, the pattern ^\d+\.\d+\.\d+$ that DeviceCreate and
\* DeviceUpdate hold a firmware_version to
VersionMatch(text) ==
    LET parts == Split(text, ".")
    IN  /\ Len(parts) = 3
        /\ \A k \in 1..3 :
               /\ parts[k] # <<>>
               /\ \A j \in 1..Len(parts[k]) : parts[k][j] \in Digits

\* telemetry of one device reporting a numbered and a named firmware
FirmwareMessages ==
    {<<Topic(<<UuidText("1"), Dev1, KindTelemetry>>), Firmware(JStr(v))>> : v \in {"2.0.1", "beta"}}

\* the customers a topic may name: the device's owner, the other customer,
\* and one the store does not know
Segments == {UuidText("1"), UuidText("2"), UuidText("3")}

\* the same reports of one device under each customer's name
SegmentMessages ==
    {<<Topic(<<c, Dev1, KindTelemetry>>), Firmware(JStr("2.0.1"))>> : c \in Segments}
        \cup {<<Topic(<<c, Dev1, KindStatus>>), Empty>> : c \in Segments}

Messages ==
    {PlainMessage} \cup IngestMessages \cup StoreMessages \cup OddMessages \cup CaseMessages
        \cup SegmentMessages \cup FirmwareMessages

\* what on_message does with each message of the environment, for either
\* state of the scheduler reference
Handling ==
    [msg \in Messages |->
        [loop \in {"none", "loop"} |-> OnMessageResult(msg[1], msg[2], loop)]]


-----------------------------------------------------------------------------
(* The broker thread and the application's start *)

\* lifespan, main.py:804-808: the client is connected and its thread started
\* before the scheduler reference is stored
Startup ==
    /\ app_event_loop = "none"
    /\ app_event_loop' = "loop"
    /\ UNCHANGED <<published, reply, req, bridge, tasks, clock, customers, zones, devices, history, conn, mqtt_client>>

\* OnMessage waiting for the result of the run it has scheduled: no message
\* is handled while a run is pending
OnMessageWaits(msg) ==
    /\ bridge = "running"
    /\ \A i \in 1..Len(tasks) : tasks[i].pc \notin {"lookup", "update", "flush", "commit"}
    /\ LET r == Handling[msg][app_event_loop]
       IN  CASE r.kind = "scheduled" ->
                    /\ Len(tasks) < MaxTasks
                    /\ tasks' = Append(tasks, Task("lookup", r))
                    /\ UNCHANGED bridge
             [] r.kind = "dropped" -> UNCHANGED <<tasks, bridge>>
             [] OTHER -> bridge' = "crashed" /\ UNCHANGED tasks
    /\ UNCHANGED <<published, reply, req, app_event_loop, clock, customers, zones, devices, history, conn, mqtt_client>>

\* on_message, main.py:731-776, for one delivered message: a message that
\* passes is handed to the scheduler (run_coroutine_threadsafe, main.py:771);
\* an exception leaving the callback would end the client's network thread
OnMessage(msg) ==
    /\ bridge = "running"
    /\ LET r == Handling[msg][app_event_loop]
       IN  CASE r.kind = "scheduled" ->
                    /\ Len(tasks) < MaxTasks
                    /\ tasks' = Append(tasks, Task("lookup", r))
                    /\ UNCHANGED bridge
             [] r.kind = "dropped" -> UNCHANGED <<tasks, bridge>>
             [] OTHER -> bridge' = "crashed" /\ UNCHANGED tasks
    /\ UNCHANGED <<published, reply, req, app_event_loop, clock, customers, zones, devices, history, conn, mqtt_client>>

-----------------------------------------------------------------------------
(* The client's link to the broker, main.py:675-686 and 800-806.  The      *)
(* client speaks MQTT 5 and sets no session expiry, so the broker forgets  *)
(* its subscriptions whenever the link goes down; the client's thread      *)
(* (loop_start) reconnects by itself after the delay reconnect_delay_set   *)
(* configured, and on_connect runs for the answer to every attempt.        *)

\* main.py:675-676: the client as constructed
NewClient == [state |-> "new", subscriptions |-> {}, connects |-> 0]

\* the answers of the broker to a connection attempt: success, bad user name
\* or password, server unavailable
Rcs == {0, 134, 136}

\* main.py:684: the subscription on_connect asks for
NodeFilter == <<"node/#", 1>>

\* lifespan, main.py:800-804: the client is configured and connects, and its
\* thread is started
Connect ==
    /\ mqtt_client.state = "new"
    /\ mqtt_client' = [mqtt_client EXCEPT !.state = "connecting", !.connects = 1]
    /\ UNCHANGED <<published, reply, req, app_event_loop, bridge, tasks, clock, customers, zones, devices, history, conn>>

\* OnConnect subscribing after the first connection only
OnConnectOnce(rc) ==
    /\ mqtt_client.state = "connecting"
    /\ bridge = "running"
    /\ mqtt_client' =
          IF rc = 0
          THEN [mqtt_client EXCEPT
                   !.state = "connected",
                   !.subscriptions = IF mqtt_client.connects = 1
                                     THEN @ \cup {NodeFilter} ELSE @]
          ELSE [mqtt_client EXCEPT !.state = "refused"]
    /\ UNCHANGED <<published, reply, req, app_event_loop, bridge, tasks, clock, customers, zones, devices, history, conn>>

\* on_connect, main.py:681-686, called on the client's thread with the
\* broker's answer rc
OnConnect(rc) ==
    /\ mqtt_client.state = "connecting"
    /\ bridge = "running"
    /\ mqtt_client' =
          IF rc = 0
          THEN [mqtt_client EXCEPT
                   !.state = "connected",
                   !.subscriptions = @ \cup {NodeFilter}]
          ELSE [mqtt_client EXCEPT !.state = "refused"]
    /\ UNCHANGED <<published, reply, req, app_event_loop, bridge, tasks, clock, customers, zones, devices, history, conn>>

\* the link goes down, or the broker closes it after refusing; the client's
\* thread waits and connects again (main.py:802, 804)
Reconnect ==
    /\ mqtt_client.state \in {"connected", "refused"}
    /\ bridge = "running"
    /\ mqtt_client.connects < MaxConnects
    /\ mqtt_client' = [mqtt_client EXCEPT
           !.state = "connecting",
           !.subscriptions = {},
           !.connects = @ + 1]
    /\ UNCHANGED <<published, reply, req, app_event_loop, bridge, tasks, clock, customers, zones, devices, history, conn>>

\* the broker forwards a message to the client: the link is up and the
\* message's topic matches a filter the client has subscribed to
Deliver(msg) ==
    /\ mqtt_client.state = "connected"
    /\ NodeFilter \in mqtt_client.subscriptions
    /\ OnMessage(msg)

-----------------------------------------------------------------------------
(* Specifications *)

Init ==
    /\ app_event_loop = "none"
    /\ bridge = "running"
    /\ tasks = <<>>
    /\ clock = 0
    /\ customers = {CustA, CustB}
    /\ zones = (ZoneA :> [customer_id |-> CustA]) @@ (ZoneB :> [customer_id |-> CustB])
    /\ devices = (Dev1 :> DeviceRow(CustA, ZoneA, "1.0.0", NullTime, 0))
                    @@ (Dev2 :> DeviceRow(CustB, ZoneB, "1.0.0", NullTime, 0))
    /\ history = {}
    /\ conn = NoConn
    /\ published = <<>>
    /\ mqtt_client = NewClient
    /\ reply = NoReply
    /\ req = NoReq

\* the ingestion path alone: the broker thread delivers messages, the
\* scheduler runs the store_message coroutines in any interleaving
IngestNext ==
    \/ Startup
    \/ \E m \in IngestMessages : OnMessage(m)
    \/ \E i \in 1..Len(tasks) : SmLookup(i)
    \/ \E i \in 1..Len(tasks) : SmUpdate(i)
    \/ \E i \in 1..Len(tasks) : SmFlush(i)
    \/ \E i \in 1..Len(tasks) : SmCommit(i)
    \/ \E i \in 1..Len(tasks) : SmFail(i)

SpecIngest == Init /\ [][IngestNext]_vars

\* the validator: every shape of message the broker may deliver
ValidateNext ==
    \/ Startup
    \/ \E m \in OddMessages \cup {PlainMessage} : OnMessage(m)
    \/ \E i \in 1..Len(tasks) : SmLookup(i)
    \/ \E i \in 1..Len(tasks) : SmUpdate(i)
    \/ \E i \in 1..Len(tasks) : SmFlush(i)
    \/ \E i \in 1..Len(tasks) : SmCommit(i)
    \/ \E i \in 1..Len(tasks) : SmFail(i)

SpecValidate == Init /\ [][ValidateNext]_vars

\* ingestion together with the endpoints that delete rows
Next ==
    \/ Startup
    \/ \E m \in StoreMessages : OnMessage(m)
    \/ \E i \in 1..Len(tasks) : SmLookup(i)
    \/ \E i \in 1..Len(tasks) : SmUpdate(i)
    \/ \E i \in 1..Len(tasks) : SmFlush(i)
    \/ \E i \in 1..Len(tasks) : SmCommit(i)
    \/ \E i \in 1..Len(tasks) : SmFail(i)
    \/ \E c \in {CustA, CustB}, d \in {Dev1, Dev1Lower, Dev2} : DeleteDevice(c, d)
    \/ \E c \in {CustA, CustB}, z \in {ZoneA, ZoneB} : DeleteZone(c, z)
    \/ \E c \in {CustA, CustB} : DeleteProfile(c)

Spec == Init /\ [][Next]_vars

\* a connection's broadcast loop beside ingestion and a device's deletion
WsNext ==
    \/ Startup
    \/ OnMessage(<<Topic(<<UuidText("1"), Dev1, KindTelemetry>>), Firmware(JStr("2.0.1"))>>)
    \/ \E i \in 1..Len(tasks) : SmLookup(i)
    \/ \E i \in 1..Len(tasks) : SmUpdate(i)
    \/ \E i \in 1..Len(tasks) : SmFlush(i)
    \/ \E i \in 1..Len(tasks) : SmCommit(i)
    \/ \E i \in 1..Len(tasks) : SmFail(i)
    \/ DeleteDevice(CustA, Dev1)
    \/ \E t \in {Token("ok", UuidText("1")), Token("expired", UuidText("1"))} :
           WsConnect(UuidText("1"), t)
    \/ \E tie \in {"up", "down"} : WsQueryDevices(tie)
    \/ WsSendDevices
    \/ \E tie \in {"up", "down"} : WsQueryHistory(tie)
    \/ WsSendHistory
    \/ WsSleep
    \/ WsFail

SpecWs == Init /\ [][WsNext]_vars

\* a connection's broadcast loop while devices of both customers report and
\* a device passes from one customer to the other
LiveNext ==
    \/ Startup
    \/ \E m \in StoreMessages : OnMessage(m)
    \/ \E i \in 1..Len(tasks) : SmLookup(i)
    \/ \E i \in 1..Len(tasks) : SmUpdate(i)
    \/ \E i \in 1..Len(tasks) : SmFlush(i)
    \/ \E i \in 1..Len(tasks) : SmCommit(i)
    \/ \E i \in 1..Len(tasks) : SmFail(i)
    \/ DeleteDevice(CustA, Dev1)
    \/ CreateDevice(CustB, CustB, Dev1, ZoneB, "1.0.0")
    \/ WsConnect(UuidText("1"), Token("ok", UuidText("1")))
    \/ \E tie \in {"up", "down"} : WsQueryDevices(tie)
    \/ WsSendDevices
    \/ \E tie \in {"up", "down"} : WsQueryHistory(tie)
    \/ WsSendHistory
    \/ WsSleep
    \/ WsFail

SpecLive == Init /\ [][LiveNext]_vars

Tokens == {Token(st, id) : st \in {"ok", "expired", "bad signature", "malformed"},
                           id \in TokenIds}

\* upgrade requests of every kind, beside the deletion of customers and of
\* a device
AcceptNext ==
    \/ \E c \in {CustA, CustB} : DeleteProfile(c)
    \/ DeleteDevice(CustA, Dev1)
    \/ \E path \in Paths, t \in Tokens : WsConnect(path, t)
    \/ \E tie \in {"up", "down"} : WsQueryDevices(tie)
    \/ WsSendDevices
    \/ \E tie \in {"up", "down"} : WsQueryHistory(tie)
    \/ WsSendHistory
    \/ WsSleep
    \/ WsFail

SpecAccept == Init /\ [][AcceptNext]_vars

\* commands of each kind with values inside, at the ends of, and outside what
\* the kind allows
Commands ==
    {<<CmdPower, On>>, <<CmdPower, Off>>,
     <<CmdPower, <<"s", "t", "a", "n", "d", "b", "y">>>>,
     <<CmdMode, Cool>>, <<CmdMode, <<"e", "c", "o">>>>,
     <<CmdFanspeed, High>>, <<CmdFanspeed, <<"t", "u", "r", "b", "o">>>>,
     <<CmdTemperature, <<"1", "5">>>>, <<CmdTemperature, <<"1", "6">>>>,
     <<CmdTemperature, <<"3", "0">>>>, <<CmdTemperature, <<"3", "1">>>>,
     <<CmdTemperature, <<" ", "2", "0", " ">>>>, <<CmdTemperature, <<"1", "6", ".", "0">>>>}

\* the bearer tokens of the callers: the first customer's, valid and expired
Caller == Token("ok", UuidText("1"))
Expired == Token("expired", UuidText("1"))
Callers == {Caller, Expired}

\* the device ids a caller may name: its own device in either case (a device
\* that is gone once it is deleted) and another customer's
Named == {Dev1, Dev1Lower, Dev2}

FirmwareUrl == <<"h", "t", "t", "p", ":", "/", "/", "f", "w">>
NewVersion == <<"2", ".", "0", ".", "1">>

\* commands and OTA directives while a device passes to the other customer
CommandNext ==
    \/ \E d \in Named, c \in Commands : SendDeviceCommand(Caller, d, c[1], c[2])
    \/ SendDeviceCommand(Expired, Dev1, CmdPower, On)
    \/ \E t \in Callers, d \in Named : TriggerOtaUpdate(t, d, FirmwareUrl, NewVersion)
    \/ DeleteDevice(CustA, Dev1)
    \/ CreateDevice(CustB, CustB, Dev1, ZoneB, "1.0.0")

SpecCommand == Init /\ [][CommandNext]_vars

\* what a request to create_device may carry as its bearer token: none, the
\* first customer's (valid, expired, wrongly signed), one of a customer that
\* does not exist, one whose subject is no UUID
Bearers ==
    {NoCredentials, Token("ok", UuidText("1")), Token("expired", UuidText("1")),
     Token("bad signature", UuidText("1")), Token("ok", UuidText("3")),
     Token("ok", <<"a", "c", "m", "e">>)}

\* and as its X-Device-Secret header: none, an empty one, the secret, the
\* secret in other letters, the secret cut short, the secret with more behind
Secrets ==
    {NoHeader, <<>>, DEVICE_SECRET_KEY, Upper(DEVICE_SECRET_KEY),
     SubSeq(DEVICE_SECRET_KEY, 1, 5), DEVICE_SECRET_KEY \o <<"!">>}

\* registrations under either credential while customers come and go
GateNext ==
    \/ \E b \in Bearers, h \in Secrets, c \in {CustA, CustB} :
          BeginCreateDevice(b, h, c, Dev3, ZoneA, "1.0.0")
    \/ RunCreateDevice
    \/ \E c \in {CustA, CustB} : DeleteProfile(c)
    \/ DeleteDevice(CustA, Dev3)

SpecGate == Init /\ [][GateNext]_vars

\* a second zone of the first customer
ZoneC == Rep("c", 32)

InitDevices ==
    /\ app_event_loop = "none"
    /\ bridge = "running"
    /\ tasks = <<>>
    /\ clock = 0
    /\ customers = {CustA, CustB}
    /\ zones = (ZoneA :> [customer_id |-> CustA]) @@ (ZoneB :> [customer_id |-> CustB])
                  @@ (ZoneC :> [customer_id |-> CustA])
    /\ devices = (Dev1 :> DeviceRow(CustA, ZoneA, "1.0.0", NullTime, 0))
                    @@ (Dev2 :> DeviceRow(CustB, ZoneB, "1.0.0", NullTime, 0))
    /\ history = {}
    /\ conn = NoConn
    /\ published = <<>>
    /\ mqtt_client = NewClient
    /\ reply = NoReply
    /\ req = NoReq

\* the bodies of update_device: a zone of the caller, a zone of the other
\* customer, null, a new firmware version
Updates ==
    {[zone_id |-> ZoneC], [zone_id |-> ZoneB], [zone_id |-> Null],
     [firmware_version |-> "2.0.0"]}

\* a device is registered, moved between zones, reports, and is deleted with
\* its zone or its customer, by either customer
DevicesNext ==
    \/ Startup
    \/ OnMessage(Report(Dev1Lower))
    \/ \E i \in 1..Len(tasks) : SmLookup(i)
    \/ \E i \in 1..Len(tasks) : SmUpdate(i)
    \/ \E i \in 1..Len(tasks) : SmFlush(i)
    \/ \E i \in 1..Len(tasks) : SmCommit(i)
    \/ \E i \in 1..Len(tasks) : SmFail(i)
    \/ CreateDevice(CustB, CustB, Dev1, ZoneB, "1.0.0")
    \/ \E u \in Updates : BeginUpdateDevice(Caller, Dev1Lower, u)
    \/ CommitUpdateDevice
    \/ DeleteDevice(CustA, Dev1)
    \/ DeleteZone(CustA, ZoneC)
    \/ DeleteProfile(CustA)

SpecDevices == InitDevices /\ [][DevicesNext]_vars

\* one device reports with its address spelled in three ways
CaseNext ==
    \/ Startup
    \/ \E m \in CaseMessages : OnMessage(m)
    \/ \E i \in 1..Len(tasks) : SmLookup(i)
    \/ \E i \in 1..Len(tasks) : SmUpdate(i)
    \/ \E i \in 1..Len(tasks) : SmFlush(i)
    \/ \E i \in 1..Len(tasks) : SmCommit(i)
    \/ \E i \in 1..Len(tasks) : SmFail(i)

SpecCase == Init /\ [][CaseNext]_vars

\* the orders in which the timestamps of a device's rows may lie against
\* the rows' ids
HistoryShapes == {"rising", "falling", "level", "mixed"}

Stamp(shape, i, m) ==
    CASE shape = "rising" -> i
      [] shape = "falling" -> m + 1 - i
      [] shape = "level" -> 1
      [] OTHER -> ((i * 7) % 5) + 1

\* m rows of Dev1 and, with `foreign`, two newer rows of the other
\* customer's device
StoredHistory(m, shape, foreign) ==
    {HistoryRow(i, Dev1, KindStatus, {}, Stamp(shape, i, m)) : i \in 1..m}
        \cup (IF foreign
              THEN {HistoryRow(m + j, Dev2, KindStatus, {}, m + j) : j \in 1..2}
              ELSE {})

\* the newest timestamp among the rows of device d, NullTime without rows
LastStamp(rows, d) ==
    LET ts == {h.timestamp : h \in {r \in rows : r.device_id = d}}
    IN  IF ts = {} THEN NullTime ELSE CHOOSE t \in ts : \A u \in ts : u <= t

\* a store that past ingestion has left with a history of some length
InitHist ==
    /\ app_event_loop = "loop"
    /\ bridge = "running"
    /\ tasks = <<>>
    /\ customers = {CustA, CustB}
    /\ zones = (ZoneA :> [customer_id |-> CustA]) @@ (ZoneB :> [customer_id |-> CustB])
    /\ \E m \in {0, 1, 2, HistoryLimit - 1, HistoryLimit, HistoryLimit + 1, MaxHistory},
          shape \in HistoryShapes, foreign \in BOOLEAN :
          /\ history = StoredHistory(m, shape, foreign)
          /\ devices =
                (Dev1 :> DeviceRow(CustA, ZoneA, "1.0.0", LastStamp(history, Dev1),
                                   LastStamp(history, Dev1)))
                @@ (Dev2 :> DeviceRow(CustB, ZoneB, "1.0.0", LastStamp(history, Dev2),
                                      LastStamp(history, Dev2)))
          /\ clock = MaxHistory + 2
    /\ conn = NoConn
    /\ published = <<>>
    /\ mqtt_client = NewClient
    /\ reply = NoReply
    /\ req = NoReq

\* the broadcast loop over a store at rest
HistNext ==
    \/ \E t \in {Token("ok", UuidText("1")), Token("expired", UuidText("1"))} :
           WsConnect(UuidText("1"), t)
    \/ \E tie \in {"up", "down"} : WsQueryDevices(tie)
    \/ WsSendDevices
    \/ \E tie \in {"up", "down"} : WsQueryHistory(tie)
    \/ WsSendHistory
    \/ WsSleep
    \/ WsFail

SpecHist == InitHist /\ [][HistNext]_vars

-----------------------------------------------------------------------------
(* Properties of the ingestion path *)

Store == <<customers, zones, devices, history>>

\* run i ends in this step with its transaction committed
Completes(i) == tasks[i].pc \in Running /\ tasks'[i].pc = "done"

\* run i ends in this step with its transaction rolled back
Fails(i) == tasks[i].pc \in Running /\ tasks'[i].pc = "failed"

\* the clock reading run i writes as last_seen
Seen(i) == tasks[i].update_values.last_seen

CarriesFirmware(t) ==
    t.message_type = KindTelemetry /\ "firmware_version" \in Keys(t.payload)

C2_UnknownDeviceWritesNothing ==
    [][\A i \in 1..Len(tasks') :
          (/\ Upper(tasks'[i].device_id) \notin DOMAIN devices
           /\ (i > Len(tasks) \/ tasks'[i] # tasks[i]))
          => /\ UNCHANGED Store
             /\ tasks'[i].pc \in {"lookup", "ignored", "failed"}]_vars

\* a run for the unknown device has returned from its lookup
C2_Witness ==
    \E i \in 1..Len(tasks) :
        /\ tasks[i].pc = "ignored"
        /\ Upper(tasks[i].device_id) = Dev3
        /\ Dev3 \notin DOMAIN devices
        /\ \A h \in history : h.device_id # Dev3

\* what is committed is whole events: a row is visible exactly for the runs
\* that committed, a last_seen or a firmware that is visible was written by a
\* run whose row is visible too, and a device with rows has its last_seen set
C3_WholeEvents ==
    /\ \A i \in 1..Len(tasks) : (\E h \in history : h.id = i) <=> tasks[i].pc = "done"
    /\ \A h \in history : h.id \in 1..Len(tasks)
    /\ \A d \in DOMAIN devices :
          /\ devices[d].last_seen # NullTime =>
                \E i \in 1..Len(tasks) : /\ tasks[i].pc = "done"
                                         /\ Upper(tasks[i].device_id) = d
                                         /\ Seen(i) = devices[d].last_seen
          /\ devices[d].firmware_version # "1.0.0" =>
                \E i \in 1..Len(tasks) :
                    /\ tasks[i].pc = "done"
                    /\ Upper(tasks[i].device_id) = d
                    /\ CarriesFirmware(tasks[i])
                    /\ Get(tasks[i].payload, "firmware_version").v = devices[d].firmware_version
          /\ (\E h \in history : h.device_id = d) => devices[d].last_seen # NullTime

\* a run that fails changes nothing, and a step changes the device rows
\* exactly when it changes the history rows
C3_AllOrNothing ==
    /\ \A i \in 1..Len(tasks) : Fails(i) => UNCHANGED Store
    /\ (devices' # devices) <=> (history' # history)

\* C3: persisting one event is atomic under any interleaving of runs with a
\* failure possible at every statement: in every committed state the update
\* of an event is visible exactly when its history row is, and a failed run
\* leaves the store as it was.
C3_Atomic == [](C3_WholeEvents) /\ [][C3_AllOrNothing]_vars

\* one run failed after its UPDATE and INSERT while another one committed
C3_Witness ==
    \E i, j \in 1..Len(tasks) :
        /\ tasks[i].pc = "failed"
        /\ Seen(i) # NullTime
        /\ Upper(tasks[i].device_id) = Dev1
        /\ tasks[j].pc = "done"
        /\ Seen(i) < Seen(j)
        /\ devices[Dev1].last_seen = Seen(j)
        /\ Cardinality(history) = 1

SameMessage(i, j) ==
    /\ tasks[i].customer_id = tasks[j].customer_id
    /\ tasks[i].device_id = tasks[j].device_id
    /\ tasks[i].message_type = tasks[j].message_type
    /\ tasks[i].payload = tasks[j].payload

RowsOf(is) == {h \in history : h.id \in is}

\* two deliveries of one message: once both runs have committed there are two
\* rows, alike in device, kind and payload; while only one has, there is its
\* row alone and the other run's last_seen is not visible
C4_TwoRows ==
    \A i, j \in 1..Len(tasks) :
        (i # j /\ SameMessage(i, j) /\ tasks[i].pc = "done") =>
            LET d == Upper(tasks[i].device_id)
            IN  IF tasks[j].pc = "done"
                THEN /\ Cardinality(RowsOf({i, j})) = 2
                     /\ \A h \in RowsOf({i, j}) :
                            /\ h.device_id = d
                            /\ h.status_type = tasks[i].message_type
                            /\ h.payload = tasks[i].payload
                     /\ (\A k \in 1..Len(tasks) :
                            (tasks[k].pc = "done" /\ Upper(tasks[k].device_id) = d)
                                => k \in {i, j})
                        => devices[d].last_seen \in {Seen(i), Seen(j)}
                ELSE /\ Cardinality(RowsOf({i, j})) = 1
                     /\ Seen(j) # NullTime => devices[d].last_seen # Seen(j)

\* the commit of a run whose message was delivered before leaves the device's
\* last_seen at the value of the committing run
C4_LastCommitWins ==
    \A i, j \in 1..Len(tasks) :
        (i # j /\ SameMessage(i, j) /\ Completes(j)) =>
            devices'[Upper(tasks[j].device_id)].last_seen = Seen(j)

\* C4: the same message delivered twice to a known device, the two runs in
\* sequence or interleaved, ends with two history rows of identical kind and
\* payload and with last_seen at the value of the run that committed last; no
\* committed state pairs one run's row with the other run's update.
C4_DuplicateDelivery == [](C4_TwoRows) /\ [][C4_LastCommitWins]_vars

\* both runs of a duplicate have committed, the one that read the clock first
\* committing last
C4_Witness ==
    \E i, j \in 1..Len(tasks) :
        /\ i # j
        /\ SameMessage(i, j)
        /\ tasks[i].pc = "done" /\ tasks[j].pc = "done"
        /\ Seen(i) < Seen(j)
        /\ devices[Upper(tasks[i].device_id)].last_seen = Seen(i)
        /\ Cardinality(RowsOf({i, j})) = 2

-----------------------------------------------------------------------------
(* Properties of the validator *)

\* the number of '/'-separated segments of each message's address
SegmentCount == [m \in Messages |-> Len(Split(m[1], "/"))]

\* C5: on_message hands off a message only when its address has exactly four
\* segments: the delivery of a message with any other segment count, fewer
\* or more, adds no run and changes no row.
C5_ExactlyFourSegments ==
    [][\A m \in Messages :
          (SegmentCount[m] # 4 /\ OnMessage(m)) => UNCHANGED <<tasks, Store>>]_vars

\* the textual form of a UUID: 8-4-4-4-12 hexadecimal digits
CanonicalUuid(s) ==
    /\ Len(s) = 36
    /\ \A i \in 1..36 : IF i \in {9, 14, 19, 24} THEN s[i] = "-" ELSE s[i] \in HexDigits

\* six colon-separated octets of two hexadecimal digits
SixOctets(s) ==
    /\ Len(s) = 17
    /\ \A i \in 1..17 : IF i % 3 = 0 THEN s[i] = ":" ELSE s[i] \in HexDigits

\* the messages with a segment or a body of a refused shape
Malformed ==
    [m \in Messages |->
        LET parts == Split(m[1], "/")
        IN  /\ Len(parts) >= 4
            /\ \/ ~CanonicalUuid(parts[2])
               \/ ~SixOctets(parts[3])
               \/ parts[4] \notin {KindStatus, KindTelemetry}
               \/ ~m[2].utf8
               \/ m[2].json # "object"]

\* C6: the delivery of a message whose customer segment is not a UUID, whose
\* device segment is not six colon-separated octets, whose kind is neither
\* status nor telemetry, or whose body is not UTF-8 JSON for an object adds no
\* run and changes no row, and no delivery ends the broker thread.
C6_MalformedRejected ==
    /\ [][\A m \in Messages :
             (Malformed[m] /\ OnMessage(m)) => UNCHANGED <<tasks, Store>>]_vars
    /\ [](bridge = "running")

-----------------------------------------------------------------------------
(* Properties of the store under deletion *)

\* C7: in every state reached by interleaving store_message runs with the
\* deletion of devices, zones and customers, each history row references a
\* device row that exists.
C7_HistoryReferencesDevice == \A h \in history : h.device_id \in DOMAIN devices

\* a device with a committed history row was deleted while a second run for
\* it was past its lookup: the row is gone with the device and the second
\* run has ended without leaving one
C7_Witness ==
    \E i, j \in 1..Len(tasks) :
        /\ tasks[i].pc = "done"
        /\ tasks[j].pc = "failed"
        /\ Seen(j) # NullTime
        /\ Upper(tasks[i].device_id) = Dev1
        /\ Upper(tasks[j].device_id) = Dev1
        /\ Dev1 \notin DOMAIN devices
        /\ history = {}

-----------------------------------------------------------------------------
(* Properties of the broadcast loop *)

\* the customer's device rows as the store has them
Owned == {d \in DOMAIN devices : devices[d].customer_id = UuidValue(conn.customer_id)}

\* the device query of an iteration
Queries == conn.pc = "query_devices" /\ conn'.pc = "send_devices"

\* C8: the snapshot an iteration's device query builds lists every device of
\* the customer with the last_seen, firmware_version and zone the store holds
\* at the time of the query.
C8_SnapshotShowsCommitted ==
    [][Queries =>
          /\ {conn'.devices[k].device_id : k \in 1..Len(conn'.devices)} = Owned
          /\ Len(conn'.devices) = Cardinality(Owned)
          /\ \A k \in 1..Len(conn'.devices) :
                LET o == conn'.devices[k]
                IN  /\ o.last_seen = devices[o.device_id].last_seen
                    /\ o.firmware_version = devices[o.device_id].firmware_version
                    /\ o.zone_id = devices[o.device_id].zone_id]_vars

\* the messages pushed in iteration k, in the order they were pushed
IterationOf(k) == SelectSeq(conn.sent, LAMBDA m : m.iter = k)

\* one device_update, followed by one status_history exactly when the
\* device_update lists a device
Whole(ms) ==
    /\ Len(ms) \in {1, 2}
    /\ ms[1].type = "device_update"
    /\ IF ms[1].n > 0 THEN Len(ms) = 2 /\ ms[2].type = "status_history"
       ELSE Len(ms) = 1

\* the beginning of a whole iteration
Begun(ms) ==
    /\ Len(ms) <= 2
    /\ Len(ms) >= 1 => ms[1].type = "device_update"
    /\ Len(ms) = 2 => ms[1].n > 0 /\ ms[2].type = "status_history"

\* C9 as stated: every iteration that pushed anything and is over, the last
\* one of a closed connection included, is one device_update followed by one
\* status_history when there is a device, and one device_update alone when
\* there is none.
C9_EveryIterationWhole ==
    \A k \in 1..conn.iter :
        (IterationOf(k) # <<>> /\ (k < conn.iter \/ conn.pc \in {"sleep", "closed"}))
            => Whole(IterationOf(k))

C9_Shape ==
    /\ \A k \in 1..conn.iter :
          /\ (k < conn.iter \/ conn.pc = "sleep") => Whole(IterationOf(k))
          /\ Begun(IterationOf(k))
    /\ \A a, b \in 1..Len(conn.sent) :
          a < b => /\ conn.sent[a].iter <= conn.sent[b].iter
                   /\ conn.sent[a].iter \in 1..conn.iter

\* the device_update of an iteration lists as many devices as the customer has
\* rows when the iteration's query runs
C9_Counts ==
    /\ Queries => Len(conn'.devices) = Cardinality(Owned)
    /\ \A a \in 1..Len(conn'.sent) :
          a > Len(conn.sent) =>
              /\ a = Len(conn.sent) + 1
              /\ conn'.sent[a].iter = conn.iter
              /\ conn'.sent[a].type = "device_update"
                    => conn'.sent[a].n = Len(conn.devices)

\* C9, restated: every iteration that reaches its sleep has pushed one
\* device_update, followed by one status_history exactly when the snapshot
\* lists a device; an iteration cut short by a failure has pushed the
\* beginning of that; a status_history never comes before the device_update
\* of its iteration.
C9_IterationShape == [](C9_Shape) /\ [][C9_Counts]_vars

\* a whole first iteration, then a second one that was cut short after the
\* device_update of a customer with a device
C9_Witness ==
    /\ conn.pc = "closed"
    /\ conn.iter = 2
    /\ Len(conn.sent) = 3
    /\ conn.sent[2].type = "status_history"
    /\ conn.sent[3].type = "device_update"
    /\ conn.sent[3].n > 0

\* the history rows of the customer's devices
OwnedHistory == HistoryOf(Owned)

Min(a, b) == IF a < b THEN a ELSE b

\* the list holds min(M, 100) different rows of the customer's devices, the
\* newer before the older, and no row left out is newer than a row listed
NewestFirst(list) ==
    LET listed == {list[k] : k \in 1..Len(list)}
    IN  /\ Len(list) = Min(Cardinality(OwnedHistory), HistoryLimit)
        /\ Cardinality(listed) = Len(list)
        /\ listed \subseteq OwnedHistory
        /\ \A k \in 1..Len(list) - 1 : list[k].timestamp >= list[k + 1].timestamp
        /\ \A h \in OwnedHistory \ listed : \A g \in listed : h.timestamp <= g.timestamp

\* C10: the history message of an iteration holds min(M, 100) records, M the
\* number of history rows of the customer's devices: the rows with the largest
\* timestamps among them, in non-increasing order of timestamp.
C10_HistoryNewestFirst ==
    /\ conn.pc = "send_history" => NewestFirst(conn.history)
    /\ (conn.pc = "sleep" /\ conn.devices # <<>>) =>
          /\ NewestFirst(conn.history)
          /\ conn.sent[Len(conn.sent)] =
                [type |-> "status_history", iter |-> conn.iter, n |-> Len(conn.history)]

\* a history message of 100 records was pushed from a store holding more rows
\* of the customer's device than that, and newer rows of another customer's
C10_Witness ==
    /\ conn.pc = "sleep"
    /\ Len(conn.history) = HistoryLimit
    /\ Cardinality(OwnedHistory) > HistoryLimit
    /\ \E h \in history \ OwnedHistory : h.timestamp > conn.history[1].timestamp
    /\ conn.history[1].timestamp > conn.history[HistoryLimit].timestamp
    /\ conn.sent[Len(conn.sent)].type = "status_history"

-----------------------------------------------------------------------------
(* Properties of a connection's scope *)

\* the customer of the connection
ConnCustomer == UuidValue(conn.customer_id)

\* the history query of an iteration
QueriesHistory == conn.pc = "query_history" /\ conn'.pc = "send_history"

\* C11: every device object an iteration's device query loads for the push is
\* a device of the connection's customer, and every history row its history
\* query loads belongs to a device that this customer owns.
C11_OnlyOwnState ==
    [][/\ Queries =>
             \A k \in 1..Len(conn'.devices) :
                 conn'.devices[k].customer_id = ConnCustomer
       /\ QueriesHistory =>
             \A k \in 1..Len(conn'.history) :
                 LET d == conn'.history[k].device_id
                 IN  d \in DOMAIN devices /\ devices[d].customer_id = ConnCustomer]_vars

\* the token is valid and names a customer that exists, and the path names
\* the same customer
Entitled(path, token) ==
    /\ token.state = "ok"
    /\ UuidOk(token.customer_id)
    /\ UuidValue(token.customer_id) \in customers
    /\ UuidOk(path)
    /\ UuidValue(path) = UuidValue(token.customer_id)

\* an upgrade request ends accepted only for an entitled client
C12_AcceptedOnlyEntitled ==
    \A path \in Paths, t \in Tokens :
        (WsConnect(path, t) /\ conn'.pc # "refused") =>
            /\ Entitled(path, t)
            /\ conn'.pc = "query_devices"
            /\ conn'.customer_id = path
            /\ conn'.sent = <<>>

\* a refused connection stays refused
C12_RefusedForGood == conn.pc = "refused" => conn' = conn

\* nothing is pushed on a connection that was not accepted, and an accepted
\* connection is scoped to a customer
C12_PushedOnlyAccepted ==
    /\ conn.pc \in {"none", "refused"} => conn.sent = <<>> /\ conn.customer_id = <<>>
    /\ conn.sent # <<>> => UuidOk(conn.customer_id)

\* C12: a connection is accepted, and snapshots are pushed on it, only if the
\* token is valid, its customer exists and the customer's id is the one in the
\* path; any other upgrade request is refused, and nothing is ever pushed on a
\* refused connection.
C12_AcceptOnlyOwner ==
    /\ [](C12_PushedOnlyAccepted)
    /\ [][C12_AcceptedOnlyEntitled /\ C12_RefusedForGood]_vars

\* the second customer's connection was accepted and a snapshot pushed on it
C12_Witness ==
    /\ conn.customer_id = UuidText("2")
    /\ CustB \in customers
    /\ Len(conn.sent) > 0
    /\ conn.sent[1].type = "device_update"

-----------------------------------------------------------------------------
(* Properties of the loop's end *)

InLoop == {"query_devices", "send_devices", "query_history", "send_history", "sleep"}

\* the loop has ended exactly when a query or a push has raised, and until
\* then its next statement can run
C13_RunsUntilRaised ==
    /\ conn.raised <=> conn.pc = "closed"
    /\ conn.pc = "query_devices" => ENABLED (\E tie \in {"up", "down"} : WsQueryDevices(tie))
    /\ conn.pc = "send_devices" => ENABLED WsSendDevices
    /\ conn.pc = "query_history" => ENABLED (\E tie \in {"up", "down"} : WsQueryHistory(tie))
    /\ conn.pc = "send_history" => ENABLED WsSendHistory
    /\ (conn.pc = "sleep" /\ conn.iter < MaxIter) => ENABLED WsSleep

\* the step that ends the loop is a query or a push that raises and pushes
\* nothing; nothing happens on the connection afterwards; a loop that has not
\* ended stays in the loop
C13_EndsOnlyByRaising ==
    /\ (conn.pc # "closed" /\ conn'.pc = "closed") =>
          /\ conn.pc \in InLoop \ {"sleep"}
          /\ conn'.raised
          /\ conn'.sent = conn.sent
    /\ conn.pc = "closed" => conn' = conn
    /\ (conn.pc \in InLoop /\ ~conn'.raised) => conn'.pc \in InLoop

\* C13: once a push (or a query) of the broadcast loop raises, a disconnect
\* or any other exception, the loop is left and nothing more is pushed on the
\* connection; the loop is left in no other way, and while nothing raises its
\* next statement runs.
C13_ExitOnFailureOnly == [](C13_RunsUntilRaised) /\ [][C13_EndsOnlyByRaising]_vars

\* a loop that completed one iteration and was left when the push of the
\* second iteration's history raised
C13_Witness ==
    /\ conn.pc = "closed"
    /\ conn.raised
    /\ conn.iter = 2
    /\ Len(conn.sent) = 3
    /\ conn.sent[3].type = "device_update"
    /\ conn.history # <<>>

\* one device's reports arrive under the name of any customer
SegmentNext ==
    \/ Startup
    \/ \E m \in SegmentMessages : OnMessage(m)
    \/ \E i \in 1..Len(tasks) : SmLookup(i)
    \/ \E i \in 1..Len(tasks) : SmUpdate(i)
    \/ \E i \in 1..Len(tasks) : SmFlush(i)
    \/ \E i \in 1..Len(tasks) : SmCommit(i)
    \/ \E i \in 1..Len(tasks) : SmFail(i)

SpecSegment == Init /\ [][SegmentNext]_vars

\* a device is created and updated through the API, whose request models
\* let only numbered versions through, while it reports its firmware itself
FirmwareNext ==
    \/ Startup
    \/ \E m \in FirmwareMessages : OnMessage(m)
    \/ \E i \in 1..Len(tasks) : SmLookup(i)
    \/ \E i \in 1..Len(tasks) : SmUpdate(i)
    \/ \E i \in 1..Len(tasks) : SmFlush(i)
    \/ \E i \in 1..Len(tasks) : SmCommit(i)
    \/ \E i \in 1..Len(tasks) : SmFail(i)
    \/ DeleteDevice(CustA, Dev1)
    \/ CreateDevice(CustA, CustA, Dev1, ZoneA, "1.0.0")
    \/ BeginUpdateDevice(Caller, Dev1, [firmware_version |-> "2.0.0"])
    \/ CommitUpdateDevice

SpecFirmware == Init /\ [][FirmwareNext]_vars

\* a connection whose client goes away at any point of the loop; the
\* scheduler runs every task that can run, so a loop that can take a step
\* takes it in the end
LoopStep ==
    \/ \E tie \in {"up", "down"} : WsQueryDevices(tie)
    \/ WsSendDevices
    \/ \E tie \in {"up", "down"} : WsQueryHistory(tie)
    \/ WsSendHistory
    \/ WsSleep

GoneNext ==
    \/ Startup
    \/ OnMessage(<<Topic(<<UuidText("1"), Dev1, KindTelemetry>>), Firmware(JStr("2.0.1"))>>)
    \/ \E i \in 1..Len(tasks) : SmLookup(i)
    \/ \E i \in 1..Len(tasks) : SmUpdate(i)
    \/ \E i \in 1..Len(tasks) : SmFlush(i)
    \/ \E i \in 1..Len(tasks) : SmCommit(i)
    \/ \E i \in 1..Len(tasks) : SmFail(i)
    \/ DeleteDevice(CustA, Dev1)
    \/ WsConnect(UuidText("1"), Token("ok", UuidText("1")))
    \/ LoopStep
    \/ WsClientGone
    \/ WsFail

SpecGone == Init /\ [][GoneNext]_vars /\ WF_vars(LoopStep)

\* the link to the broker: the client connects, is accepted or refused, loses
\* the link and connects again, while the messages the broker forwards are
\* persisted
BridgeNext ==
    \/ Connect
    \/ \E rc \in Rcs : OnConnect(rc)
    \/ Reconnect
    \/ Startup
    \/ \E m \in StoreMessages : Deliver(m)
    \/ \E i \in 1..Len(tasks) : SmLookup(i)
    \/ \E i \in 1..Len(tasks) : SmUpdate(i)
    \/ \E i \in 1..Len(tasks) : SmFlush(i)
    \/ \E i \in 1..Len(tasks) : SmCommit(i)
    \/ \E i \in 1..Len(tasks) : SmFail(i)

SpecBridge == Init /\ [][BridgeNext]_vars

-----------------------------------------------------------------------------
(* C14 - C16: commands and OTA directives *)

\* the customer a caller acts as
Acting(t) == TokenCustomer(t)

\* the acting customer owns the device the request names
OwnedBy(t, d) ==
    /\ Acting(t) # <<>>
    /\ Upper(d) \in DOMAIN devices
    /\ devices[Upper(d)].customer_id = Acting(t)

\* a value the kind allows
ValidFor(command, value) ==
    \/ command = CmdPower /\ value \in {On, Off}
    \/ command = CmdMode /\ value \in {Auto, Cool, Heat, Dry, Fan}
    \/ command = CmdFanspeed /\ value \in {Auto, Low, Medium, High}
    \/ command = CmdTemperature /\ IntOk(value) /\ IntValue(value) \in 16..30

Publishes == published' # published

\* C14: for a device the acting customer owns, send_device_command publishes
\* if and only if the value is valid for its kind (power on/off; mode
\* auto/cool/heat/dry/fan; fanspeed auto/low/medium/high; temperature an
\* integer from 16 to 30); a rejected command publishes nothing and the
\* caller is told 400.
C14_PublishesIffValid ==
    [][\A t \in Callers, d \in Named :
          OwnedBy(t, d) =>
              \A c \in Commands :
                  SendDeviceCommand(t, d, c[1], c[2])
                      => /\ Publishes <=> ValidFor(c[1], c[2])
                         /\ ~ValidFor(c[1], c[2]) => ~Publishes /\ reply'.status = 400]_vars

Temperature(value) ==
    Publish(CommandTopic(CustA, Dev1, CmdTemperature), value)

\* 16 has been published, and then a temperature has been rejected (15, 31,
\* or one that is no integer)
C14_Witness ==
    /\ published = <<Temperature(<<"1", "6">>)>>
    /\ reply = Reply("send_device_command", 400, Detail(CmdTemperature))

\* C15: an accepted command makes exactly one publish, to
\* node/<acting customer>/<device id>/command/<kind>, and its body is the
\* value as the caller wrote it.  The device segment is compared without
\* regard to letter case.
C15_OnePublishRawBody ==
    [][\A t \in Callers, d \in Named, c \in Commands :
          reply'.status = 200 /\ SendDeviceCommand(t, d, c[1], c[2])
              => /\ Len(published') = Len(published) + 1
                 /\ SubSeq(published', 1, Len(published)) = published
                 /\ LET m == published'[Len(published')]
                        segments == Split(m.topic, "/")
                    IN  /\ Len(segments) = 5
                        /\ segments[1] = Node
                        /\ segments[2] = UuidStr(Acting(t))
                        /\ Upper(segments[3]) = Upper(d)
                        /\ segments[4] = <<"c", "o", "m", "m", "a", "n", "d">>
                        /\ segments[5] = c[1]
                        /\ m.payload = c[2]]_vars

\* a temperature written with blanks around it has gone out as written
C15_Witness ==
    /\ Len(published) = 1
    /\ published[1].payload = <<" ", "2", "0", " ">>
    /\ reply = Reply("send_device_command", 200, "")

\* C16: a command or an OTA directive is published only for a device that
\* exists and that the acting customer owns when the handler looks it up; for
\* any other device the caller is told 404 and nothing is published.
C16_PublishOnlyOwned ==
    [][\A t \in Callers, d \in Named :
          (\/ \E c \in Commands : SendDeviceCommand(t, d, c[1], c[2])
           \/ TriggerOtaUpdate(t, d, FirmwareUrl, NewVersion))
              => /\ Publishes => OwnedBy(t, d)
                 /\ Acting(t) # <<>> /\ ~OwnedBy(t, d)
                        => ~Publishes /\ reply'.status = 404]_vars

\* the first customer has published to its device, has lost it to the second
\* customer, and has then been told 404
C16_Witness ==
    /\ Len(published) = 1
    /\ Dev1 \in DOMAIN devices /\ devices[Dev1].customer_id = CustB
    /\ reply.status = 404

-----------------------------------------------------------------------------
(* C17: the credential gate *)

\* the outcome of validating the token alone: the customer, or "" (401)
TokenAlone(credentials) ==
    IF /\ credentials.state = "ok"
       /\ credentials.customer_id # <<>>
       /\ UuidOk(credentials.customer_id)
       /\ UuidValue(credentials.customer_id) \in customers
    THEN UuidValue(credentials.customer_id)
    ELSE <<>>

\* what the gate has made of the request in this step: the principal it
\* passes to the handler, or "" when it answers 401
Outcome ==
    IF req'.pc = "refused" /\ reply'.status = 401 THEN <<>>
    ELSE IF req'.pc = "create_device" /\ req'.principal # <<>> /\ reply' = reply
    THEN req'.principal
    ELSE <<"?">>

\* C17: with a bearer token the gate's outcome is that of validating the
\* token alone, whatever the device-secret header holds; without one it is
\* the device principal if and only if the header equals the device secret,
\* and with neither credential the request is answered 401.
C17_TokenBeforeSecret ==
    [][\A b \in Bearers, h \in Secrets, c \in {CustA, CustB} :
          BeginCreateDevice(b, h, c, Dev3, ZoneA, "1.0.0")
              => /\ b # NoCredentials => Outcome = TokenAlone(b)
                 /\ b = NoCredentials => (Outcome = DevicePrincipal <=> h = DEVICE_SECRET_KEY)
                 /\ b = NoCredentials /\ h # DEVICE_SECRET_KEY => Outcome = <<>>
                 /\ b = NoCredentials /\ h = NoHeader => Outcome = <<>>]_vars

\* a request with an expired token and the right device secret has been
\* refused
C17_Witness ==
    /\ req.pc = "refused"
    /\ req.credentials = Token("expired", UuidText("1"))
    /\ req.x_device_secret = DEVICE_SECRET_KEY
    /\ reply = Reply("create_device", 401, "Token has expired")

-----------------------------------------------------------------------------
(* C18: a device's owner, zone and identity *)

\* every device row names a customer that exists and a zone that exists
OwnerAndZone ==
    \A d \in DOMAIN devices :
        /\ devices[d].customer_id \in customers
        /\ devices[d].zone_id \in DOMAIN zones

\* a row that is there before and after a step keeps its owner
KeepsOwner ==
    \A d \in DOMAIN devices \cap DOMAIN devices' :
        devices'[d].customer_id = devices[d].customer_id

\* a row appears only when create_device answers 200
AppearsByCreation ==
    \A d \in DOMAIN devices' \ DOMAIN devices :
        reply' = Reply("create_device", 200, "") /\ devices'[d].updated_at = clock

\* the zone of a row changes only when update_device commits a body that
\* sets it
MovesByUpdate ==
    \A d \in DOMAIN devices \cap DOMAIN devices' :
        devices'[d].zone_id # devices[d].zone_id
            => /\ req.pc = "update_device" /\ req.device_id = d
               /\ devices'[d].zone_id = req.update_dict.zone_id
               /\ reply' = Reply("update_device", 200, "")

\* C18: after any sequence of device creation, device update, device, zone
\* and customer deletion and telemetry ingestion, every device has one owning
\* customer and one zone, both existing; a device keeps the id and the owner
\* it was created with, and only update_device changes its zone.
C18_OneOwnerOneZone ==
    []OwnerAndZone /\ [][KeepsOwner /\ AppearsByCreation /\ MovesByUpdate]_vars

\* the device was deleted and registered by the second customer while an
\* update of the first customer was on its way; the update has moved it
C18_Witness ==
    /\ Dev1 \in DOMAIN devices
    /\ devices[Dev1].customer_id = CustB
    /\ devices[Dev1].zone_id = ZoneC
    /\ reply = Reply("update_device", 200, "")

-----------------------------------------------------------------------------
(* C19: the letter case of the device segment *)

\* the upper-case form of an address: its hexadecimal letters in capitals
Capital(s) ==
    [i \in 1..Len(s) |->
        CASE s[i] = "a" -> "A" [] s[i] = "b" -> "B" [] s[i] = "c" -> "C"
          [] s[i] = "d" -> "D" [] s[i] = "e" -> "E" [] s[i] = "f" -> "F"
          [] OTHER -> s[i]]

\* run i looks up the upper-case form of its segment
LooksUpCapital(i) ==
    SmLookup(i) =>
        (tasks'[i].pc = "ignored" <=> Capital(tasks[i].device_id) \notin DOMAIN devices)

\* run i changes the device row of that form and no other, and the history
\* row it appends carries that form
WritesCapital(i) ==
    SmCommit(i) =>
        /\ \A d \in DOMAIN devices : devices'[d] # devices[d] => d = Capital(tasks[i].device_id)
        /\ devices'[Capital(tasks[i].device_id)].last_seen = tasks[i].update_values.last_seen
        /\ \A h \in history' \ history : h.device_id = Capital(tasks[i].device_id)
        /\ history' # history

\* C19: whatever the letter case of a valid message's device segment, the
\* device looked up and updated and the device_id of the appended history row
\* are the upper-case form of the segment; messages that differ only in that
\* case affect the same device.
C19_CaseInsensitive ==
    [][\A i \in 1..Len(tasks) : LooksUpCapital(i) /\ WritesCapital(i)]_vars

\* two reports that spell the address differently have both been stored for
\* the one device
C19_Witness ==
    /\ Len(tasks) = 2
    /\ tasks[1].device_id = Dev1Lower /\ tasks[2].device_id = Dev1Mixed
    /\ tasks[1].pc = "done" /\ tasks[2].pc = "done"
    /\ \A i \in 1..2 : \E h \in history : h.id = i /\ h.device_id = Dev1
    /\ devices[Dev1].last_seen # NullTime

-----------------------------------------------------------------------------
(* C20: messages delivered before the scheduler reference is set *)

\* while the reference is unset no run of store_message exists and the store
\* is as it was at the start
NothingBeforeLoop ==
    app_event_loop = "none" =>
        /\ tasks = <<>>
        /\ history = {}
        /\ \A d \in DOMAIN devices : devices[d].last_seen = NullTime

\* a message delivered while the reference is unset schedules nothing and
\* changes nothing
DroppedWithoutLoop ==
    app_event_loop = "none" /\ (\E m \in IngestMessages : OnMessage(m))
        => UNCHANGED <<tasks, devices, history>>

\* every history row was written by a run, and every run was scheduled with
\* the reference set
PersistedAfterLoop ==
    /\ \A h \in history : h.id \in 1..Len(tasks)
    /\ tasks # <<>> => app_event_loop = "loop"

\* C20: a message delivered while app_event_loop is unset is dropped for
\* good: it changes nothing in the store then, and leaves nothing behind that
\* could change it later; only messages delivered after the reference is set
\* are persisted.
C20_DroppedBeforeLoop ==
    [](NothingBeforeLoop /\ PersistedAfterLoop) /\ [][DroppedWithoutLoop]_vars

\* the reference is set and the one message delivered since has been stored
C20_Witness ==
    /\ app_event_loop = "loop"
    /\ Len(tasks) = 1 /\ tasks[1].pc = "done"
    /\ Cardinality(history) = 1

-----------------------------------------------------------------------------
(* C21: how many handed-off events are pending *)

\* the runs that on_message has handed to the scheduler and that have not
\* finished
Pending == {i \in 1..Len(tasks) : tasks[i].pc \in Running}

\* C21: the number of events handed off and not yet persisted stays below a
\* fixed bound however fast messages arrive.  on_message hands every valid
\* message over without looking at what is pending, so the only bound is the
\* number of messages delivered: stated here as "not every message delivered
\* so far is pending at once".
C21_HandoffBounded == Cardinality(Pending) < MaxTasks

-----------------------------------------------------------------------------
(* C22: the broker thread does no store work *)

\* whatever the runs handed off before are doing, the next message can be
\* handled, and none of them has ended the broker thread
NeverHeldUp ==
    /\ bridge = "running"
    /\ Len(tasks) < MaxTasks => \A m \in IngestMessages : ENABLED OnMessage(m)

\* handling a message leaves the store and the earlier runs as they are; the
\* run it hands off has not executed a statement when on_message returns
OnlyHandsOff ==
    (\E m \in IngestMessages : OnMessage(m)) =>
        /\ UNCHANGED <<devices, history, clock>>
        /\ \A i \in 1..Len(tasks) : tasks'[i] = tasks[i]
        /\ \A i \in (Len(tasks) + 1)..Len(tasks') :
               tasks'[i].pc = "lookup" /\ tasks'[i].lock = "none"

\* C22: on_message does no store read or write: it parses, hands the run to
\* the scheduler and returns without waiting, so it can return before the
\* run has started, and a slow or failing run neither delays nor fails the
\* handling of the next message.
C22_BrokerThreadNeverWaits == []NeverHeldUp /\ [][OnlyHandsOff]_vars

\* the second message has been handled while the run of the first has not
\* executed a statement
C22_Witness ==
    /\ Len(tasks) = 2
    /\ tasks[1].pc = "lookup"
    /\ tasks[2].pc = "lookup"

-----------------------------------------------------------------------------
(* C23: which session an operation uses *)

\* the objects the session of the connection has loaded and still holds: the
\* session is the one get_db opened when the connection was accepted
\* (main.py:1703), it served the sign-in query, and the loop never opens
\* another; store_message opens its own for each run (main.py:691)
SessionHolds == conn.devices

\* C23: every broadcast-loop iteration uses a session opened for that
\* iteration and closed when it ends, so no session outlives one iteration:
\* when an iteration starts its device query, the session it queries with has
\* loaded nothing yet.
C23_SessionPerIteration == conn.pc = "query_devices" => SessionHolds = <<>>

-----------------------------------------------------------------------------
(* C24: the subscription follows the connection *)

\* while the link is up the client is subscribed to node/# at QoS 1, and to
\* nothing while it is down or refused
SubscribedWhileUp ==
    IF mqtt_client.state = "connected"
    THEN mqtt_client.subscriptions = {NodeFilter}
    ELSE mqtt_client.subscriptions = {}

\* on_connect subscribes exactly when the broker's answer is 0
SubscribesOnSuccess ==
    \A rc \in Rcs :
        OnConnect(rc) =>
            (mqtt_client'.subscriptions # mqtt_client.subscriptions <=> rc = 0)

\* C24: after every successful connect or reconnect (answer 0) the bridge
\* subscribes to node/# at QoS 1, and after a refused connect it subscribes
\* to nothing.
C24_SubscribesOnEveryConnect == []SubscribedWhileUp /\ [][SubscribesOnSuccess]_vars

\* the client has lost its first link, connected again and is subscribed
C24_Witness ==
    /\ mqtt_client.connects > 1
    /\ mqtt_client.state = "connected"
    /\ NodeFilter \in mqtt_client.subscriptions

-----------------------------------------------------------------------------
(* C25: the customer a topic names plays no part in persisting *)

\* what the run i does to the store, told by the event's device, kind and
\* payload alone: it gives up only when the device is unknown, and its commit
\* adds the event to the device's history and stamps the device row, whose
\* owner stays who it was
NamedCustomerIgnored(i) ==
    LET d == Upper(tasks[i].device_id)
    IN  /\ (tasks[i].pc = "lookup" /\ tasks'[i].pc = "ignored") => d \notin DOMAIN devices
        /\ (tasks[i].pc = "commit" /\ tasks'[i].pc = "done") =>
               /\ \E h \in history' \ history :
                      /\ h.device_id = d
                      /\ h.status_type = tasks[i].message_type
                      /\ h.payload = tasks[i].payload
               /\ devices'[d].customer_id = devices[d].customer_id
               /\ devices'[d].last_seen = tasks[i].update_values.last_seen

\* C25: persisting an event depends only on its device id, kind and payload:
\* the store change is the same whichever customer the topic names, the
\* device's owner or not.
C25_CustomerSegmentIgnored ==
    [][\A i \in 1..Len(tasks) : NamedCustomerIgnored(i)]_vars

\* a report naming the other customer has been persisted for the device
C25_Witness ==
    \E i \in 1..Len(tasks) :
        /\ tasks[i].pc = "done"
        /\ tasks[i].customer_id = UuidText("2")
        /\ devices[Dev1].customer_id = CustA
        /\ devices[Dev1].firmware_version = "2.0.1"
        /\ \E h \in history : h.device_id = Dev1 /\ h.id = i

-----------------------------------------------------------------------------
(* C26: the device segment of a published address *)

\* the device segment of an address
DeviceSegment(topic) == Split(topic, "/")[3]

\* C26: the device segment of every command and OTA address published is the
\* device's stored id, in capital letters, however the request spelled it.
C26_CanonicalDeviceSegment ==
    \A k \in 1..Len(published) :
        DeviceSegment(published[k].topic) = Upper(DeviceSegment(published[k].topic))

-----------------------------------------------------------------------------
(* C27: last_seen under interleaved runs *)

\* C27: the last_seen committed for a device never decreases when the runs of
\* several events for it interleave: a commit never replaces a later
\* last_seen by an earlier one.
C27_LastSeenMonotonic ==
    [][\A d \in DOMAIN devices :
          d \in DOMAIN devices' /\ devices[d].last_seen # NullTime
              => devices'[d].last_seen >= devices[d].last_seen]_vars

-----------------------------------------------------------------------------
(* C28: the shape of a stored firmware version *)

\* C28: the firmware_version of every device has the shape
\* digits.digits.digits after any sequence of creations, updates and
\* telemetry ingestions.
C28_FirmwareVersionShape ==
    \A d \in DOMAIN devices : VersionMatch(VersionText[devices[d].firmware_version])

-----------------------------------------------------------------------------
(* C29: a device's zone and its customer *)

\* C29: the zone of every device exists and belongs to the device's customer
\* after any creation of a device by either principal, any update of a
\* device's zone and any deletion of a zone.
C29_ZoneOfSameCustomer ==
    \A d \in DOMAIN devices :
        /\ devices[d].zone_id \in DOMAIN zones
        /\ zones[devices[d].zone_id].customer_id = devices[d].customer_id

-----------------------------------------------------------------------------
(* C30: the loop of a client that has gone *)

\* once the client has gone nothing more is pushed, the loop carries on with
\* its queries and its sleep as before, and its next attempt to push ends it
NoticedAtNextPush ==
    conn.gone > 0 =>
        /\ conn'.gone = conn.gone
        /\ conn'.sent = conn.sent
        /\ (conn.pc \in {"send_devices", "send_history"} /\ conn'.pc # conn.pc)
               => conn'.pc = "closed"

\* when the client goes, nothing in the loop runs: the loop is where it was
NeverReads ==
    (conn.gone = 0 /\ conn'.gone > 0) =>
        conn' = [conn EXCEPT !.gone = conn.iter] /\ conn.pc # "closed"

\* the loop starts at most one iteration after the one the client went in,
\* and that iteration gets no further than its first attempt to push
OneMoreAttempt ==
    (conn.gone > 0 /\ conn.iter > conn.gone) =>
        /\ conn.iter = conn.gone + 1
        /\ conn.pc \in {"query_devices", "send_devices", "closed"}

\* C30: the loop never reads from the connection, so a client's leaving is
\* noticed at the next push only: after the client has gone the loop makes
\* at most one more attempt to query and push, pushes nothing, and exits;
\* with a scheduler that runs every runnable task, the loop of a client that
\* has gone ends.
C30_GoneClientEndsLoop ==
    /\ [][NoticedAtNextPush /\ NeverReads]_vars
    /\ []OneMoreAttempt
    /\ (conn.gone > 0 ~> conn.pc = "closed")

\* the client went during the first iteration's sleep; the second iteration
\* ran its query, failed to push, and the loop has ended
C30_Witness ==
    /\ conn.gone = 1
    /\ conn.pc = "closed"
    /\ conn.iter = 2
    /\ \A k \in 1..Len(conn.sent) : conn.sent[k].iter = 1
    /\ Len(conn.sent) > 0

=============================================================================
